---- MODULE Spec2Model ----
(***************************************************************************)
(* The CDP relay of dev-browser (serveRelay): one browser-side (extension) *)
(* WebSocket, any number of automation-client WebSockets, the Target       *)
(* Registry (connectedTargets), the Named Page Directory (namedPages), the *)
(* Client Registry (patchrightClients) and the Command Correlator          *)
(* (extensionPendingRequests, extensionMessageId).                         *)
(*                                                                         *)
(* Every handler of the relay is one action.  Node runs a handler to its   *)
(* end and then drains the promise continuations it made runnable before   *)
(* any other event is processed, so a handler and the continuations of the *)
(* requests it settles are one atomic step: the handler's synchronous part *)
(* first, the continuations afterwards, on the state the handler left.     *)
(*                                                                         *)
(* The extension itself is not part of the relay; it is the environment.   *)
(* It answers only commands it was sent, a Target.createTarget reply names *)
(* a tab no earlier message named, and a session id belongs to one tab.    *)
(***************************************************************************)
EXTENDS Integers, Sequences, FiniteSets, TLC

\* ------------------------------------------------------------------ bounds
MaxExt == 2        \* browser-side sockets that may ever connect
MaxSock == 3       \* automation-client sockets that may ever connect
MaxSessions == 2   \* session ids the extension may announce
MaxTargets == 2    \* tabs (targetIds) that may ever exist
MaxNames == 2      \* page names callers use
MaxReq == 2        \* requests sent to the extension in Spec (extensionMessageId cap)
MaxUrl == 1        \* urls a target info may carry: 0..MaxUrl
MaxCmd == 1        \* command ids a client uses: 1..MaxCmd
MaxPageReq == 3    \* extensionMessageId cap where POST /pages is called twice
MaxDeletedReq == 4 \* extensionMessageId cap where a page is created, deleted, created again
MaxRuns == 2       \* `run` invocations (CLI processes) that may ever start
MaxRetries == 2    \* retries of lockfile.lock (40 in locks.ts)
MaxCallers == 2    \* `daemon ensure` invocations that may be in progress at once
MaxPids == 2       \* processes that may ever be spawned
MaxPorts == 2      \* values of --port
MaxLaunchReq == 2  \* HTTP requests the launch-mode server may be handling at once
MaxLaunchPages == 3 \* pages the launch-mode browser may ever open

ExtSockets == 1..MaxExt
Sockets == 1..MaxSock
Sessions == 1..MaxSessions
TargetIds == 1..MaxTargets
Names == 1..MaxNames
ReqIds == 1..MaxReq
CmdIds == 1..MaxCmd
Urls == 0..MaxUrl
RunIds == 1..MaxRuns
Callers == 1..MaxCallers
Pids == 1..MaxPids
LaunchReqs == 1..MaxLaunchReq
PageIds == 1..MaxLaunchPages
Ports == 1..MaxPorts
Modes == {"launch", "extension"}
Engines == {"patchright", "playwright"}

\* The client id in the URL of a client socket (/cdp/:clientId): sockets 1 and
\* 2 use the same id, socket 3 another, and so on in pairs.
ClientIdOf(ws) == (ws + 1) \div 2
ClientIds == {ClientIdOf(ws) : ws \in Sockets}

\* The tab a session id belongs to (the extension attaches a session to one tab;
\* two sessions may belong to the same tab).
TargetOf(s) == ((s - 1) % MaxTargets) + 1

VARIABLES
    connectedTargets,         \* Map<sessionId, ConnectedTarget>, insertion order
    namedPages,               \* Map<name, sessionId>, insertion order
    patchrightClients,        \* Map<clientId, {ws, knownTargets}>
    extensionWs,              \* current browser-side socket, 0 = null
    extensionPendingRequests, \* Map<id, continuation>
    extensionMessageId,       \* last request id used
    timers,                   \* request ids whose timeout timer is armed
    sleeping,                 \* POST /pages handlers in their 200 ms wait
    extState,                 \* per browser-side socket: new/open/closing/closed
    cliState,                 \* per client socket: new/open/closing/closed
    extInbox,                 \* per browser-side socket: request ids it was sent
    tabs,                     \* targetIds some message of the extension named
    out,                      \* what the last step sent (messages, closes, replies)
    ev,                       \* the event the last step handled
    hist,                     \* history the relay does not keep (observation only)
    locks,                    \* per page name: the run holding its lock file, 0 = free
    runs,                     \* per `run` invocation: where it is in runCode
    stateFile,                \* per mode: the managed state file, NoState = absent
    pidFile,                  \* per mode: the pid file, 0 = absent
    procs,                    \* per pid: the process spawned under it
    calls,                    \* per `daemon ensure` invocation: where it is in ensureDaemon
    done,                     \* what the last step of a daemon command did
    registry,                 \* launch server: Map<name, PageEntry>, 0 = no entry
    pages,                    \* launch server: per page, its state and close handler
    reqs,                     \* launch server: per HTTP request, where its handler is
    launchOut,                \* launch server: the last HTTP answer
    launchUp                  \* launch server: the process has not shut down

vars == <<connectedTargets, namedPages, patchrightClients, extensionWs,
          extensionPendingRequests, extensionMessageId, timers, sleeping,
          extState, cliState, extInbox, tabs, out, ev, hist, locks, runs,
          stateFile, pidFile, procs, calls, done,
          registry, pages, reqs, launchOut, launchUp>>

\* The state of the relay process / of the CLI processes and their files.
relayVars == <<connectedTargets, namedPages, patchrightClients, extensionWs,
               extensionPendingRequests, extensionMessageId, timers, sleeping,
               extState, cliState, extInbox, tabs, out, ev, hist>>
cliVars == <<locks, runs, stateFile, pidFile, procs, calls, done>>
runVars == <<locks, runs>>
daemonVars == <<stateFile, pidFile, procs, calls, done>>
launchVars == <<registry, pages, reqs, launchOut, launchUp>>

\* ----------------------------------------------------------------- records
NoCont == [kind |-> "none", client |-> 0, id |-> 0, sessionId |-> 0,
           name |-> 0, targetId |-> 0]

\* What a step emits.  t: "cli" (message to a client socket), "cliClose",
\* "ext" (command to the browser side), "extClose", "http" (HTTP response),
\* "settle" (a pending request resolved or rejected).
Msg(t, ws, k, id, sessionId, targetId, note) ==
    [t |-> t, ws |-> ws, k |-> k, id |-> id, sessionId |-> sessionId,
     targetId |-> targetId, note |-> note, name |-> 0, data |-> <<>>]

\* The event a step handled: the handler, the socket it came from, its
\* payload; for the open and close of a browser-side socket, how much the
\* relay held when the event arrived (for a detach, how many names were
\* bound and how many targets registered); for a reply, whether its request had timed out before (late).
Event(h, ws, cmd) ==
    [h |-> h, ws |-> ws, cmd |-> cmd, late |-> FALSE,
     was |-> [current |-> 0, names |-> 0, targets |-> 0, pending |-> 0, clients |-> 0]]

ConnectionEvent(h, ws) ==
    [h |-> h, ws |-> ws, late |-> FALSE,
     cmd |-> [id |-> 0, sessionId |-> 0, method |-> "", targetId |-> 0, discover |-> FALSE],
     was |-> [current |-> extensionWs,
              names |-> Len(namedPages), targets |-> Len(connectedTargets),
              pending |-> Cardinality(DOMAIN extensionPendingRequests),
              clients |-> Cardinality(DOMAIN patchrightClients)]]

Emit(st, m) == [st EXCEPT !.out = Append(@, m)]

\* ---------------------------------------------------------- Map operations
RECURSIVE IndexOfSession(_, _, _)
IndexOfSession(ct, sessionId, i) ==
    IF i > Len(ct) THEN 0
    ELSE IF ct[i].sessionId = sessionId THEN i
    ELSE IndexOfSession(ct, sessionId, i + 1)

HasSession(ct, sessionId) == IndexOfSession(ct, sessionId, 1) # 0

\* Map.set: an existing key keeps its place, a new key goes last.
TargetsSet(ct, target) ==
    LET i == IndexOfSession(ct, target.sessionId, 1)
    IN IF i = 0 THEN Append(ct, target) ELSE [ct EXCEPT ![i] = target]

TargetsDeleteNone(ct, sessionId) == ct

\* Map.delete
TargetsDelete(ct, sessionId) ==
    SelectSeq(ct, LAMBDA x : x.sessionId # sessionId)

\* Array.from(connectedTargets.values()).find(item => item.targetId === targetId)
RECURSIVE IndexOfTargetId(_, _, _)
IndexOfTargetId(ct, targetId, i) ==
    IF i > Len(ct) THEN 0
    ELSE IF ct[i].targetId = targetId THEN i
    ELSE IndexOfTargetId(ct, targetId, i + 1)

RECURSIVE IndexOfName(_, _, _)
IndexOfName(np, name, i) ==
    IF i > Len(np) THEN 0
    ELSE IF np[i].name = name THEN i
    ELSE IndexOfName(np, name, i + 1)

\* namedPages.get(name), 0 = undefined
NamedGet(np, name) ==
    LET i == IndexOfName(np, name, 1)
    IN IF i = 0 THEN 0 ELSE np[i].sessionId

NamedSet(np, name, sessionId) ==
    LET i == IndexOfName(np, name, 1)
    IN IF i = 0 THEN Append(np, [name |-> name, sessionId |-> sessionId])
       ELSE [np EXCEPT ![i] = [name |-> name, sessionId |-> sessionId]]

NamedDelete(np, name) == SelectSeq(np, LAMBDA x : x.name # name)

RECURSIVE IndexOfBoundSession(_, _, _)
IndexOfBoundSession(np, sessionId, i) ==
    IF i > Len(np) THEN 0
    ELSE IF np[i].sessionId = sessionId THEN i
    ELSE IndexOfBoundSession(np, sessionId, i + 1)

RemoveAt(s, i) == [j \in 1..(Len(s) - 1) |-> IF j < i THEN s[j] ELSE s[j + 1]]

\* for (const [name, sid] of namedPages) if (sid === sessionId) { delete; break }
UnbindBySession(np, sessionId) ==
    LET i == IndexOfBoundSession(np, sessionId, 1)
    IN IF i = 0 THEN np ELSE RemoveAt(np, i)

\* The elements of a set of integers in increasing order.
RECURSIVE SortedSeq(_)
SortedSeq(S) ==
    IF S = {} THEN <<>>
    ELSE LET m == CHOOSE x \in S : \A y \in S : x <= y
         IN <<m>> \o SortedSeq(S \ {m})


\* ------------------------------------------------------------ relay state
\* The relay's state as one value, so that a handler is a function on it.
\* thrown is the exception a call has raised and its caller has yet to catch.
State ==
    [connectedTargets |-> connectedTargets, namedPages |-> namedPages,
     patchrightClients |-> patchrightClients, extensionWs |-> extensionWs,
     extensionPendingRequests |-> extensionPendingRequests,
     extensionMessageId |-> extensionMessageId, timers |-> timers,
     sleeping |-> sleeping, extState |-> extState, cliState |-> cliState,
     extInbox |-> extInbox, tabs |-> tabs, out |-> <<>>, thrown |-> ""]

\* The messages of kind t among msgs, in order (of the HTTP responses, those
\* of POST /pages).
RECURSIVE Pick(_, _)
Pick(msgs, t) ==
    IF msgs = <<>> THEN <<>>
    ELSE IF Head(msgs).t = t /\ (t = "http" => Head(msgs).k = "POST /pages")
         THEN <<Head(msgs)>> \o Pick(Tail(msgs), t)
         ELSE Pick(Tail(msgs), t)

\* What a caller of POST /pages and the browser side see of a step, in order:
\* the call (and whether its name was unused), the commands written to the
\* browser side, the 200 responses.
LogEntry(t, name, k, targetId, unused) ==
    [t |-> t, name |-> name, k |-> k, targetId |-> targetId, unused |-> unused]

RECURSIVE LogOf(_)
LogOf(msgs) ==
    IF msgs = <<>> THEN <<>>
    ELSE LET m == Head(msgs)
         IN (IF m.t = "ext" THEN <<LogEntry("ext", 0, m.k, m.targetId, FALSE)>>
             ELSE IF m.t = "http" /\ m.k = "POST /pages"
             THEN <<LogEntry("ret", m.name, "", m.targetId, FALSE)>>
             ELSE <<>>) \o LogOf(Tail(msgs))

\* How many Target.attachedToTarget events for targetId t msgs sends to the
\* client socket ws.
RECURSIVE Told(_, _, _)
Told(msgs, ws, t) ==
    IF msgs = <<>> THEN 0
    ELSE (IF /\ Head(msgs).t = "cli" /\ Head(msgs).ws = ws
             /\ Head(msgs).k = "Target.attachedToTarget" /\ Head(msgs).targetId = t
          THEN 1 ELSE 0) + Told(Tail(msgs), ws, t)

\* Counts are kept up to "more than one".
Min2(n) == IF n > 2 THEN 2 ELSE n

\* The history a step adds.  Always: the client sockets, not closed yet, that
\* were registered when a browser-side connection was replaced (stale), and
\* the requests that timed out and may still be answered (timedOut).  Only
\* when hist.on: the log of the POST /pages calls since the last detach,
\* delete, browser-side open or close, or failed call, and the bindings that
\* DELETE /pages removed (deleted), the open client sockets that enabled
\* auto-attach (auto) and how many attach events each open client socket was
\* sent per targetId (told).
Observe(st, e) ==
    [on |-> hist.on,
     stale |-> {ws \in (IF e.h = "ExtOnOpen" /\ extensionWs # 0
                        THEN hist.stale \cup {patchrightClients[c].ws :
                                                  c \in DOMAIN patchrightClients}
                        ELSE hist.stale) : st.cliState[ws] # "closed"},
     timedOut |-> {id \in (IF e.h = "Timeout" THEN hist.timedOut \cup {e.cmd.id}
                           ELSE hist.timedOut) :
                      \E ws \in ExtSockets : \E m \in st.extInbox[ws] : m.id = id},
     log |-> IF ~hist.on THEN hist.log
             ELSE IF \/ e.h \in {"ExtOnOpen", "ExtOnClose", "ExtOnDetached", "DeletePages"}
                     \/ \E i \in 1..Len(st.out) :
                           /\ st.out[i].t = "http" /\ st.out[i].k = "POST /pages"
                           /\ st.out[i].id # 200
             THEN <<>>
             ELSE hist.log
                  \o (IF e.h = "PostPages"
                      THEN <<LogEntry("call", e.cmd.id, "", 0, NamedGet(namedPages, e.cmd.id) = 0)>>
                      ELSE <<>>)
                  \o LogOf(st.out),
     deleted |-> IF hist.on /\ e.h = "DeletePages" /\ NamedGet(namedPages, e.cmd.id) # 0
                 THEN hist.deleted
                          \cup {[name |-> e.cmd.id,
                                 sessionId |-> NamedGet(namedPages, e.cmd.id)]}
                 ELSE hist.deleted,
     auto |-> IF ~hist.on THEN hist.auto
              ELSE {ws \in (IF /\ e.h = "CliOnMessage" /\ extensionWs # 0
                               /\ e.cmd.method = "Target.setAutoAttach" /\ e.cmd.sessionId = 0
                            THEN hist.auto \cup {e.ws} ELSE hist.auto) :
                       st.cliState[ws] = "open"},
     told |-> IF ~hist.on THEN hist.told
              ELSE [ws \in Sockets |-> [t \in TargetIds |->
                       IF st.cliState[ws] # "open" THEN 0
                       ELSE Min2(hist.told[ws][t] + Told(st.out, ws, t))]]]

Apply(st, e) ==
    /\ hist' = Observe(st, e)
    /\ connectedTargets' = st.connectedTargets
    /\ namedPages' = st.namedPages
    /\ patchrightClients' = st.patchrightClients
    /\ extensionWs' = st.extensionWs
    /\ extensionPendingRequests' = st.extensionPendingRequests
    /\ extensionMessageId' = st.extensionMessageId
    /\ timers' = st.timers
    /\ sleeping' = st.sleeping
    /\ extState' = st.extState
    /\ cliState' = st.cliState
    /\ extInbox' = st.extInbox
    /\ tabs' = st.tabs
    /\ out' = st.out
    /\ ev' = e
    /\ UNCHANGED <<cliVars, launchVars>>

\* ---------------------------------------------------------------- sending
\* sendToPatchright(message, clientId?): clientId 0 is "no clientId", a
\* broadcast to every client in the registry.
RECURSIVE SendToEach(_, _, _)
SendToEach(st, message, ids) ==
    IF ids = <<>> THEN st
    ELSE SendToEach(Emit(st, [message EXCEPT !.ws = st.patchrightClients[Head(ids)].ws]),
                    message, Tail(ids))

sendToPatchright(st, message, clientId) ==
    IF clientId # 0
    THEN IF clientId \in DOMAIN st.patchrightClients
         THEN Emit(st, [message EXCEPT !.ws = st.patchrightClients[clientId].ws])
         ELSE st
    ELSE SendToEach(st, message, SortedSeq(DOMAIN st.patchrightClients))

AttachedEvent(target) ==
    Msg("cli", 0, "Target.attachedToTarget", 0, target.sessionId, target.targetId, "")

AttachOneAlways(st, target, clientId) ==
    LET client == st.patchrightClients[clientId]
    IN Emit([st EXCEPT !.patchrightClients[clientId].knownTargets =
                           @ \cup {target.targetId}],
            [AttachedEvent(target) EXCEPT !.ws = client.ws])

\* One client's share of sendAttachedToTarget: skip a client that knows the
\* target already, otherwise record it and send the event.
AttachOne(st, target, clientId) ==
    LET client == st.patchrightClients[clientId]
    IN IF target.targetId \in client.knownTargets THEN st
       ELSE Emit([st EXCEPT !.patchrightClients[clientId].knownTargets =
                                @ \cup {target.targetId}],
                 [AttachedEvent(target) EXCEPT !.ws = client.ws])

RECURSIVE AttachEach(_, _, _)
AttachEach(st, target, ids) ==
    IF ids = <<>> THEN st
    ELSE AttachEach(AttachOne(st, target, Head(ids)), target, Tail(ids))

sendAttachedToTarget(st, target, clientId) ==
    IF clientId # 0
    THEN IF clientId \in DOMAIN st.patchrightClients
         THEN AttachOne(st, target, clientId)
         ELSE st
    ELSE AttachEach(st, target, SortedSeq(DOMAIN st.patchrightClients))

\* sendToExtension: throws when no extension is connected; otherwise takes the
\* next id, writes the command, arms the timeout and stores the continuation.
sendToExtension(st, method, sessionId, targetId, cont) ==
    IF st.extensionWs = 0
    THEN [st EXCEPT !.thrown = "Extension not connected"]
    ELSE LET id == st.extensionMessageId + 1
             pend == st.extensionPendingRequests
         IN [Emit(st, Msg("ext", st.extensionWs, method, id, sessionId, targetId, ""))
             EXCEPT !.extensionMessageId = id,
                    !.extInbox[st.extensionWs] = @ \cup {[id |-> id, method |-> method]},
                    !.timers = @ \cup {id},
                    !.extensionPendingRequests =
                        [i \in DOMAIN pend \cup {id} |->
                            IF i = id THEN cont ELSE pend[i]]]

\* ---------------------------------------------------------- continuations
\* What a settled request hands to the code awaiting it.
Resolved(targetId) == [ok |-> TRUE, targetId |-> targetId, err |-> ""]
Rejected(err) == [ok |-> FALSE, targetId |-> 0, err |-> err]

\* An HTTP response: its status in id, the page name, the targetId it reports.
HttpResponse(status, name, targetId, note) ==
    [Msg("http", 0, "POST /pages", status, 0, targetId, note) EXCEPT !.name = name]

\* The code after an awaited sendToExtension, by the place that awaits it:
\*   "cmd"      /cdp onMessage after routeCdpCommand: reply to the client
\*   "reuse"    POST /pages, activateTarget of the page the name is bound to
\*   "create"   POST /pages, Target.createTarget: then the 200 ms wait
\*   "activate" POST /pages, activateTarget of the page just bound
RunCont(st, req, cont, outcome) ==
    CASE cont.kind = "cmd" ->
           IF outcome.ok
           THEN sendToPatchright(st, Msg("cli", 0, "result", cont.id, cont.sessionId,
                                         outcome.targetId, ""), cont.client)
           ELSE sendToPatchright(st, Msg("cli", 0, "error", cont.id, cont.sessionId,
                                         0, outcome.err), cont.client)
      [] cont.kind = "reuse" ->
           IF outcome.ok
           THEN Emit(st, HttpResponse(200, cont.name, cont.targetId, ""))
           ELSE Emit(st, HttpResponse(500, cont.name, 0, "Internal Server Error"))
      [] cont.kind = "create" ->
           IF outcome.ok
           THEN [st EXCEPT !.sleeping = @ \cup {[name |-> cont.name,
                                                 targetId |-> outcome.targetId,
                                                 req |-> req]}]
           ELSE Emit(st, HttpResponse(500, cont.name, 0, outcome.err))
      [] cont.kind = "activate" ->
           IF outcome.ok
           THEN Emit(st, HttpResponse(200, cont.name, cont.targetId, ""))
           ELSE Emit(st, HttpResponse(500, cont.name, 0, outcome.err))
      [] OTHER -> st

\* The continuations of the requests one handler settled, in the order it
\* settled them.  settled: a sequence of [req, cont].
RECURSIVE RunConts(_, _, _)
RunConts(st, settled, outcome) ==
    IF settled = <<>> THEN st
    ELSE RunConts(RunCont(st, Head(settled).req, Head(settled).cont, outcome),
                  Tail(settled), outcome)

\* The pending requests in Map order (the order of their ids).
PendingInOrder(st) ==
    LET ids == SortedSeq(DOMAIN st.extensionPendingRequests)
    IN [i \in 1..Len(ids) |-> [req |-> ids[i], cont |-> st.extensionPendingRequests[ids[i]]]]

RECURSIVE EmitSettles(_, _, _, _)
EmitSettles(st, settled, how, err) ==
    IF settled = <<>> THEN st
    ELSE EmitSettles(Emit(st, Msg("settle", 0, how, Head(settled).req, 0, 0, err)),
                     Tail(settled), how, err)

RejectAllPendingKeep(st, err) ==
    [EmitSettles(st, PendingInOrder(st), "reject", err) EXCEPT !.timers = {}]

\* for (const pending of extensionPendingRequests.values()) pending.reject(err);
\* extensionPendingRequests.clear();   (reject also clears the request's timer)
RejectAllPending(st, err) ==
    [EmitSettles(st, PendingInOrder(st), "reject", err)
     EXCEPT !.extensionPendingRequests = << >>, !.timers = {}]

SettleOneKeepTimer(st, req, how, err) ==
    LET pend == st.extensionPendingRequests
    IN [Emit(st, Msg("settle", 0, how, req, 0, 0, err))
        EXCEPT !.extensionPendingRequests = [i \in DOMAIN pend \ {req} |-> pend[i]]]

\* Settle one request: its timer is cleared and its record is gone.
SettleOne(st, req, how, err) ==
    LET pend == st.extensionPendingRequests
    IN [Emit(st, Msg("settle", 0, how, req, 0, 0, err))
        EXCEPT !.extensionPendingRequests = [i \in DOMAIN pend \ {req} |-> pend[i]],
               !.timers = @ \ {req}]

\* --------------------------------------------------- browser-side handlers
ClearTargetsOnly(st) == [st EXCEPT !.connectedTargets = <<>>]

\* connectedTargets.clear(); namedPages.clear();
ClearRegistries(st) == [st EXCEPT !.connectedTargets = <<>>, !.namedPages = <<>>]

CloseOldExtensionSkip(st) == st

\* extensionWs.close(4001, "Extension Replaced")
CloseOldExtension(st) ==
    [Emit(st, Msg("extClose", st.extensionWs, "close", 4001, 0, 0, "Extension Replaced"))
     EXCEPT !.extState[st.extensionWs] = IF @ = "open" THEN "closing" ELSE @]

ExtOnOpenResetsIds(st, ws) ==
    LET settled == PendingInOrder(st)
        s1 == IF st.extensionWs # 0
              THEN RejectAllPending(ClearRegistries(CloseOldExtension(st)),
                                    "Extension connection replaced")
              ELSE st
        s2 == [s1 EXCEPT !.extensionWs = ws, !.extState[ws] = "open",
                         !.extensionMessageId = 0]
    IN IF st.extensionWs # 0
       THEN RunConts(s2, settled, Rejected("Extension connection replaced"))
       ELSE s2

\* /extension onOpen
ExtOnOpen(st, ws) ==
    LET settled == PendingInOrder(st)
        s1 == IF st.extensionWs # 0
              THEN RejectAllPending(ClearRegistries(CloseOldExtension(st)),
                                    "Extension connection replaced")
              ELSE st
        s2 == [s1 EXCEPT !.extensionWs = ws, !.extState[ws] = "open"]
    IN IF st.extensionWs # 0
       THEN RunConts(s2, settled, Rejected("Extension connection replaced"))
       ELSE s2

RECURSIVE CloseEach(_, _, _)
CloseEach(st, ids, reason) ==
    IF ids = <<>> THEN st
    ELSE LET ws == st.patchrightClients[Head(ids)].ws
         IN CloseEach([Emit(st, Msg("cliClose", ws, "close", 1000, 0, 0, reason))
                       EXCEPT !.cliState[ws] = IF @ = "open" THEN "closing" ELSE @],
                      Tail(ids), reason)

CloseAllClientsKeepRegistry(st, reason) ==
    CloseEach(st, SortedSeq(DOMAIN st.patchrightClients), reason)

\* for (const client of patchrightClients.values()) client.ws.close(1000, reason);
\* patchrightClients.clear();
CloseAllClients(st, reason) ==
    [CloseEach(st, SortedSeq(DOMAIN st.patchrightClients), reason)
     EXCEPT !.patchrightClients = << >>]

ExtOnCloseAnySocket(st, ws) ==
    LET s0 == [st EXCEPT !.extState[ws] = "closed"]
        settled == PendingInOrder(s0)
        s1 == RejectAllPending(s0, "Extension connection closed")
        s2 == ClearRegistries([s1 EXCEPT !.extensionWs = 0])
        s3 == CloseAllClients(s2, "Extension disconnected")
    IN RunConts(s3, settled, Rejected("Extension connection closed"))

ExtOnCloseStaleClears(st, ws) ==
    LET s0 == [st EXCEPT !.extState[ws] = "closed"]
    IN IF s0.extensionWs # 0 /\ s0.extensionWs # ws
       THEN ClearRegistries(s0)
       ELSE ExtOnCloseAnySocket(st, ws)

\* /extension onClose
ExtOnClose(st, ws) ==
    LET s0 == [st EXCEPT !.extState[ws] = "closed"]
        settled == PendingInOrder(s0)
    IN IF s0.extensionWs # 0 /\ s0.extensionWs # ws
       THEN s0
       ELSE LET s1 == RejectAllPending(s0, "Extension connection closed")
                s2 == ClearRegistries([s1 EXCEPT !.extensionWs = 0])
                s3 == CloseAllClients(s2, "Extension disconnected")
            IN RunConts(s3, settled, Rejected("Extension connection closed"))

\* /extension onMessage, a reply {id, result | error}: resolve or reject the
\* pending request with that id; a reply with no pending request is dropped.
ExtOnReply(st, ws, id, outcome) ==
    IF id \notin DOMAIN st.extensionPendingRequests
    THEN st
    ELSE RunCont(SettleOne(st, id, IF outcome.ok THEN "resolve" ELSE "reject", outcome.err),
                 id, st.extensionPendingRequests[id], outcome)

ConnectedTarget(sessionId, url) ==
    [sessionId |-> sessionId, targetId |-> TargetOf(sessionId),
     targetInfo |-> [targetId |-> TargetOf(sessionId), url |-> url]]

\* /extension onMessage, forwardCDPEvent Target.attachedToTarget
ExtOnAttached(st, target) ==
    sendAttachedToTarget([st EXCEPT !.connectedTargets = TargetsSet(@, target)],
                         target, 0)

DetachCascadeNone(np, sessionId) == np

\* The cleanup of the Named Page Directory when a session detaches.
DetachCascade(np, sessionId) == UnbindBySession(np, sessionId)

\* /extension onMessage, forwardCDPEvent Target.detachedFromTarget
ExtOnDetached(st, sessionId) ==
    sendToPatchright([st EXCEPT !.connectedTargets = TargetsDelete(@, sessionId),
                                !.namedPages = DetachCascade(@, sessionId)],
                     Msg("cli", 0, "Target.detachedFromTarget", 0, sessionId, 0, ""), 0)

ExtOnInfoChangedUpsert(st, targetInfo) ==
    LET i == IndexOfTargetId(st.connectedTargets, targetInfo.targetId, 1)
        s1 == IF i = 0
              THEN [st EXCEPT !.connectedTargets =
                                  Append(@, [sessionId |-> MaxSessions + 1,
                                             targetId |-> targetInfo.targetId,
                                             targetInfo |-> targetInfo])]
              ELSE [st EXCEPT !.connectedTargets[i].targetInfo = targetInfo]
    IN sendToPatchright(s1, [Msg("cli", 0, "Target.targetInfoChanged", 0, 0,
                                 targetInfo.targetId, "")
                             EXCEPT !.data = <<targetInfo>>], 0)

\* /extension onMessage, forwardCDPEvent Target.targetInfoChanged: the first
\* stored target with the event's targetId takes the new info.
ExtOnInfoChanged(st, targetInfo) ==
    LET i == IndexOfTargetId(st.connectedTargets, targetInfo.targetId, 1)
        s1 == IF i = 0 THEN st
              ELSE [st EXCEPT !.connectedTargets[i].targetInfo = targetInfo]
    IN sendToPatchright(s1, [Msg("cli", 0, "Target.targetInfoChanged", 0, 0,
                                 targetInfo.targetId, "")
                             EXCEPT !.data = <<targetInfo>>], 0)

\* /extension onMessage, any other forwardCDPEvent: forwarded to every client
ExtOnEvent(st, method, sessionId) ==
    sendToPatchright(st, Msg("cli", 0, method, 0, sessionId, 0, ""), 0)

\* -------------------------------------------------------- client handlers
\* /cdp/:clientId onOpen
CliOnOpen(st, ws) ==
    LET clientId == ClientIdOf(ws)
        pc == st.patchrightClients
    IN IF clientId \in DOMAIN pc
       THEN [Emit(st, Msg("cliClose", ws, "close", 1000, 0, 0, "Client ID already connected"))
             EXCEPT !.cliState[ws] = "closing"]
       ELSE [st EXCEPT !.cliState[ws] = "open",
                       !.patchrightClients =
                           [c \in DOMAIN pc \cup {clientId} |->
                               IF c = clientId THEN [ws |-> ws, knownTargets |-> {}]
                               ELSE pc[c]]]

\* /cdp/:clientId onClose
CliOnClose(st, ws) ==
    LET clientId == ClientIdOf(ws)
        pc == st.patchrightClients
    IN [st EXCEPT !.cliState[ws] = "closed",
                  !.patchrightClients = [c \in DOMAIN pc \ {clientId} |-> pc[c]]]

\* The pseudo-session Target.attachToBrowserTarget returns ("browser").
BrowserSession == -1

EmulatedMethodsFewer ==
    {"Browser.getVersion", "Target.setDiscoverTargets", "Target.setAutoAttach",
     "Target.createBrowserContext", "Target.attachToBrowserTarget",
     "Target.attachToTarget", "Target.getTargetInfo", "Target.getTargets"}

\* The commands routeCdpCommand answers itself.
EmulatedMethods ==
    {"Browser.getVersion", "Target.setDiscoverTargets", "Target.setAutoAttach",
     "Target.getBrowserContexts", "Target.createBrowserContext",
     "Target.attachToBrowserTarget", "Target.attachToTarget",
     "Target.getTargetInfo", "Target.getTargets"}

Command(id, sessionId, method, targetId, discover) ==
    [id |-> id, sessionId |-> sessionId, method |-> method,
     targetId |-> targetId, discover |-> discover]

Result(note, data) == [note |-> note, data |-> data]

TargetInfos(ct) == [i \in 1..Len(ct) |-> ct[i].targetInfo]

EmulatedResultAttachDefault(st, cmd) ==
    LET ct == st.connectedTargets
        i == IF cmd.targetId = 0 THEN 0 ELSE IndexOfTargetId(ct, cmd.targetId, 1)
    IN CASE cmd.method = "Browser.getVersion" -> Result("Chrome/extension-relay", <<>>)
         [] cmd.method = "Target.attachToBrowserTarget" ->
              Result("sessionId", <<[sessionId |-> BrowserSession]>>)
         [] cmd.method = "Target.attachToTarget" ->
              IF i # 0 THEN Result("sessionId", <<[sessionId |-> ct[i].sessionId]>>)
              ELSE IF Len(ct) > 0 THEN Result("sessionId", <<[sessionId |-> ct[1].sessionId]>>)
              ELSE Result("", <<>>)
         [] cmd.method = "Target.getTargetInfo" ->
              IF i # 0 THEN Result("targetInfo", <<ct[i].targetInfo>>)
              ELSE IF Len(ct) > 0 THEN Result("targetInfo", <<ct[1].targetInfo>>)
              ELSE Result("targetInfo", <<>>)
         [] cmd.method = "Target.getTargets" -> Result("targetInfos", TargetInfos(ct))
         [] OTHER -> Result("", <<>>)

EmulatedResultInfoLast(st, cmd) ==
    LET ct == st.connectedTargets
        i == IF cmd.targetId = 0 THEN 0 ELSE IndexOfTargetId(ct, cmd.targetId, 1)
    IN CASE cmd.method = "Browser.getVersion" -> Result("Chrome/extension-relay", <<>>)
         [] cmd.method = "Target.attachToBrowserTarget" ->
              Result("sessionId", <<[sessionId |-> BrowserSession]>>)
         [] cmd.method = "Target.attachToTarget" ->
              IF i # 0 THEN Result("sessionId", <<[sessionId |-> ct[i].sessionId]>>)
              ELSE Result("", <<>>)
         [] cmd.method = "Target.getTargetInfo" ->
              IF i # 0 THEN Result("targetInfo", <<ct[i].targetInfo>>)
              ELSE IF Len(ct) > 0 THEN Result("targetInfo", <<ct[Len(ct)].targetInfo>>)
              ELSE Result("targetInfo", <<>>)
         [] cmd.method = "Target.getTargets" -> Result("targetInfos", TargetInfos(ct))
         [] OTHER -> Result("", <<>>)

\* routeCdpCommand, the locally answered methods: the result of the command.
\* targetId 0 is "no targetId in params".
EmulatedResult(st, cmd) ==
    LET ct == st.connectedTargets
        i == IF cmd.targetId = 0 THEN 0 ELSE IndexOfTargetId(ct, cmd.targetId, 1)
    IN CASE cmd.method = "Browser.getVersion" -> Result("Chrome/extension-relay", <<>>)
         [] cmd.method = "Target.attachToBrowserTarget" ->
              Result("sessionId", <<[sessionId |-> BrowserSession]>>)
         [] cmd.method = "Target.attachToTarget" ->
              IF i # 0 THEN Result("sessionId", <<[sessionId |-> ct[i].sessionId]>>)
              ELSE Result("", <<>>)
         [] cmd.method = "Target.getTargetInfo" ->
              IF i # 0 THEN Result("targetInfo", <<ct[i].targetInfo>>)
              ELSE IF Len(ct) > 0 THEN Result("targetInfo", <<ct[1].targetInfo>>)
              ELSE Result("targetInfo", <<>>)
         [] cmd.method = "Target.getTargets" -> Result("targetInfos", TargetInfos(ct))
         [] OTHER -> Result("", <<>>)

ForwardCommandHeld(st, clientId, cmd) ==
    IF \E id \in DOMAIN st.extensionPendingRequests :
          /\ st.extensionPendingRequests[id].kind = "cmd"
          /\ st.extensionPendingRequests[id].client = clientId
    THEN st
    ELSE sendToExtension(st, cmd.method, cmd.sessionId, cmd.targetId,
                         [NoCont EXCEPT !.kind = "cmd", !.client = clientId, !.id = cmd.id,
                                        !.sessionId = cmd.sessionId])

\* routeCdpCommand, the forwarded methods: Target.createTarget and
\* Target.closeTarget go without a sessionId, every other method with it.
ForwardCommand(st, clientId, cmd) ==
    sendToExtension(st, cmd.method,
                    IF cmd.method \in {"Target.createTarget", "Target.closeTarget"}
                    THEN 0 ELSE cmd.sessionId,
                    cmd.targetId,
                    [NoCont EXCEPT !.kind = "cmd", !.client = clientId, !.id = cmd.id,
                                   !.sessionId = cmd.sessionId])

RECURSIVE AttachAllTo(_, _, _, _)
AttachAllTo(st, ct, i, clientId) ==
    IF i > Len(ct) THEN st
    ELSE AttachAllTo(sendAttachedToTarget(st, ct[i], clientId), ct, i + 1, clientId)

RECURSIVE CreatedAllTo(_, _, _, _)
CreatedAllTo(st, ct, i, clientId) ==
    IF i > Len(ct) THEN st
    ELSE CreatedAllTo(
             sendToPatchright(st, [Msg("cli", 0, "Target.targetCreated", 0, 0,
                                       ct[i].targetId, "")
                                   EXCEPT !.data = <<ct[i].targetInfo>>], clientId),
             ct, i + 1, clientId)

\* /cdp onMessage after routeCdpCommand returned: the notifications the
\* command triggers, before its reply.
PostRoute(st, clientId, cmd, result) ==
    LET ct == st.connectedTargets
        s1 == IF cmd.method = "Target.setAutoAttach" /\ cmd.sessionId = 0
              THEN AttachAllTo(st, ct, 1, clientId) ELSE st
        s2 == IF cmd.method = "Target.setDiscoverTargets" /\ cmd.discover
              THEN CreatedAllTo(s1, ct, 1, clientId) ELSE s1
        i == IndexOfTargetId(ct, cmd.targetId, 1)
    IN IF cmd.method = "Target.attachToTarget" /\ result.note = "sessionId" /\ i # 0
       THEN sendAttachedToTarget(s2, ct[i], clientId)
       ELSE s2

\* /cdp/:clientId onMessage
CliOnMessage(st, ws, cmd) ==
    LET clientId == ClientIdOf(ws)
    IN IF st.extensionWs = 0
       THEN sendToPatchright(st, Msg("cli", 0, "error", cmd.id, cmd.sessionId, 0,
                                     "Extension not connected"), clientId)
       ELSE IF cmd.method \in EmulatedMethods
       THEN LET result == EmulatedResult(st, cmd)
            IN sendToPatchright(PostRoute(st, clientId, cmd, result),
                                [Msg("cli", 0, "result", cmd.id, cmd.sessionId, 0,
                                     result.note)
                                 EXCEPT !.data = result.data], clientId)
       ELSE ForwardCommand(st, clientId, cmd)

\* ------------------------------------------------------------ HTTP pages
PageCont(kind, name, targetId) ==
    [NoCont EXCEPT !.kind = kind, !.name = name, !.targetId = targetId]

PostPagesAlwaysCreate(st, name) ==
    IF st.extensionWs = 0
    THEN Emit(st, HttpResponse(503, name, 0, "Extension not connected"))
    ELSE sendToExtension(st, "Target.createTarget", 0, 0, PageCont("create", name, 0))

PostPagesOnePerName(st, name) ==
    IF \/ \E id \in DOMAIN st.extensionPendingRequests :
             /\ st.extensionPendingRequests[id].kind = "create"
             /\ st.extensionPendingRequests[id].name = name
          \/ \E rec \in st.sleeping : rec.name = name
    THEN Emit(st, HttpResponse(409, name, 0, "creation in progress"))
    ELSE PostPagesAlwaysCreate(st, name)

\* POST /pages up to its first await
PostPages(st, name) ==
    LET existingSessionId == NamedGet(st.namedPages, name)
        i == IF existingSessionId = 0 THEN 0
             ELSE IndexOfSession(st.connectedTargets, existingSessionId, 1)
    IN IF i # 0
       THEN LET target == st.connectedTargets[i]
                s1 == sendToExtension(st, "Target.activateTarget", 0, target.targetId,
                                      PageCont("reuse", name, target.targetId))
            IN IF s1.thrown # ""
               THEN Emit([s1 EXCEPT !.thrown = ""],
                         HttpResponse(500, name, 0, "Internal Server Error"))
               ELSE s1
       ELSE LET s1 == IF existingSessionId # 0
                      THEN [st EXCEPT !.namedPages = NamedDelete(@, name)]
                      ELSE st
            IN IF s1.extensionWs = 0
               THEN Emit(s1, HttpResponse(503, name, 0, "Extension not connected"))
               ELSE sendToExtension(s1, "Target.createTarget", 0, 0,
                                    PageCont("create", name, 0))

PostPagesAfterWaitFirstTarget(st, rec) ==
    LET s0 == [st EXCEPT !.sleeping = @ \ {rec}]
        found == IndexOfTargetId(s0.connectedTargets, rec.targetId, 1)
        i == IF found = 0 /\ Len(s0.connectedTargets) > 0 THEN 1 ELSE found
    IN IF i = 0
       THEN Emit(s0, HttpResponse(500, rec.name, 0, "Target created but not found in registry"))
       ELSE LET target == s0.connectedTargets[i]
                s1 == [s0 EXCEPT !.namedPages = NamedSet(@, rec.name, target.sessionId)]
                s2 == sendToExtension(s1, "Target.activateTarget", 0, target.targetId,
                                      PageCont("activate", rec.name, target.targetId))
            IN IF s2.thrown # ""
               THEN Emit([s2 EXCEPT !.thrown = ""], HttpResponse(500, rec.name, 0, s2.thrown))
               ELSE s2

PostPagesAfterWaitLastTarget(st, rec) ==
    LET s0 == [st EXCEPT !.sleeping = @ \ {rec}]
        i == Len(s0.connectedTargets)
    IN IF i = 0
       THEN Emit(s0, HttpResponse(500, rec.name, 0, "Target created but not found in registry"))
       ELSE LET target == s0.connectedTargets[i]
                s1 == [s0 EXCEPT !.namedPages = NamedSet(@, rec.name, target.sessionId)]
                s2 == sendToExtension(s1, "Target.activateTarget", 0, target.targetId,
                                      PageCont("activate", rec.name, target.targetId))
            IN IF s2.thrown # ""
               THEN Emit([s2 EXCEPT !.thrown = ""], HttpResponse(500, rec.name, 0, s2.thrown))
               ELSE s2

\* POST /pages when its 200 ms wait ends: bind the name to the first session
\* whose target has the created targetId, then bring the tab to front.
PostPagesAfterWait(st, rec) ==
    LET s0 == [st EXCEPT !.sleeping = @ \ {rec}]
        i == IndexOfTargetId(s0.connectedTargets, rec.targetId, 1)
    IN IF i = 0
       THEN Emit(s0, HttpResponse(500, rec.name, 0, "Target created but not found in registry"))
       ELSE LET target == s0.connectedTargets[i]
                s1 == [s0 EXCEPT !.namedPages = NamedSet(@, rec.name, target.sessionId)]
                s2 == sendToExtension(s1, "Target.activateTarget", 0, target.targetId,
                                      PageCont("activate", rec.name, target.targetId))
            IN IF s2.thrown # ""
               THEN Emit([s2 EXCEPT !.thrown = ""], HttpResponse(500, rec.name, 0, s2.thrown))
               ELSE s2

DeletePagesKeep(st, name) ==
    Emit(st, [HttpResponse(200, name, 0, "success") EXCEPT !.k = "DELETE /pages"])

DeletePagesClosesTarget(st, name) ==
    LET i == IndexOfSession(st.connectedTargets, NamedGet(st.namedPages, name), 1)
        s1 == IF i # 0 /\ st.extensionWs # 0
              THEN sendToExtension(st, "Target.closeTarget", 0,
                                   st.connectedTargets[i].targetId,
                                   PageCont("close", name, st.connectedTargets[i].targetId))
              ELSE st
    IN Emit([s1 EXCEPT !.namedPages = NamedDelete(@, name)],
            [HttpResponse(200, name, 0,
                          IF IndexOfName(st.namedPages, name, 1) # 0
                          THEN "success" ELSE "no success")
             EXCEPT !.k = "DELETE /pages"])

\* DELETE /pages/:name
DeletePages(st, name) ==
    LET deleted == IndexOfName(st.namedPages, name, 1) # 0
    IN Emit([st EXCEPT !.namedPages = NamedDelete(@, name)],
            [HttpResponse(200, name, 0, IF deleted THEN "success" ELSE "no success")
             EXCEPT !.k = "DELETE /pages"])

\* GET /pages
GetPages(st) ==
    Emit(st, [HttpResponse(200, 0, 0, "pages")
              EXCEPT !.k = "GET /pages",
                     !.data = [i \in 1..Len(st.namedPages) |-> st.namedPages[i].name]])

\* ------------------------------------------------------------------ timers
RequestTimeoutKeepRecord(st, req) ==
    LET pend == st.extensionPendingRequests
        s1 == [st EXCEPT !.timers = @ \ {req}]
    IN IF req \in DOMAIN pend
       THEN RunCont(Emit(s1, Msg("settle", 0, "reject", req, 0, 0, "Extension request timeout")),
                    req, pend[req], Rejected("Extension request timeout"))
       ELSE s1

\* The timeout callback of sendToExtension: delete the record, reject.
RequestTimeout(st, req) ==
    LET pend == st.extensionPendingRequests
        s1 == [st EXCEPT !.timers = @ \ {req},
                         !.extensionPendingRequests = [i \in DOMAIN pend \ {req} |-> pend[i]]]
    IN IF req \in DOMAIN pend
       THEN RunCont(Emit(s1, Msg("settle", 0, "reject", req, 0, 0, "Extension request timeout")),
                    req, pend[req], Rejected("Extension request timeout"))
       ELSE s1

\* ------------------------------------------------------------- run (CLI)
\* One `run` invocation is one CLI process.  pc: where it is in runCode;
\* tries: retries of lockfile.lock used; client: the connection to the daemon;
\* body: the code body handed to the AsyncFunction; result: what runCode
\* returns ("" = nothing yet, "thrown" = runCode threw).
NoRun == [pc |-> "idle", page |-> 0, tries |-> 0, client |-> "none",
          body |-> "none", result |-> ""]

\* withLock, lockfile.lock: takes the lock when it is free, retries while it is
\* held, throws ELOCKED when the retries are used up.
Lock(r) ==
    LET run == runs[r]
    IN IF locks[run.page] = 0
       THEN /\ locks' = [locks EXCEPT ![run.page] = r]
            /\ runs' = [runs EXCEPT ![r].pc = "connect"]
       ELSE /\ locks' = locks
            /\ runs' = IF run.tries < MaxRetries
                       THEN [runs EXCEPT ![r].tries = @ + 1]
                       ELSE [runs EXCEPT ![r].pc = "exit", ![r].result = "thrown"]

\* withLock, finally: await release()
Release(r) == locks' = [locks EXCEPT ![runs[r].page] = 0]

\* runCode up to withLock: options parsed, ensureDaemon awaited (it may throw).
RunStart ==
    \E r \in RunIds : \E page \in Names :
        /\ runs[r].pc = "idle"
        /\ \A q \in RunIds : q < r => runs[q].pc # "idle"
        /\ \/ runs' = [runs EXCEPT ![r].pc = "lock", ![r].page = page]
           \/ runs' = [runs EXCEPT ![r].pc = "exit", ![r].page = page,
                                   ![r].result = "thrown"]
        /\ UNCHANGED <<locks, daemonVars, relayVars, launchVars>>

RunLock ==
    \E r \in RunIds :
        /\ runs[r].pc = "lock"
        /\ Lock(r)
        /\ UNCHANGED <<daemonVars, relayVars, launchVars>>

\* const client = await connect(ensured.serverUrl): outside the try, so a
\* failure leaves through withLock's finally only.
RunConnect ==
    \E r \in RunIds :
        /\ runs[r].pc = "connect"
        /\ \/ runs' = [runs EXCEPT ![r].pc = "page", ![r].client = "connected"]
           \/ runs' = [runs EXCEPT ![r].pc = "release", ![r].result = "thrown"]
        /\ UNCHANGED <<locks, daemonVars, relayVars, launchVars>>

\* const page = await client.page(parsed.page), then the body is started.
RunPage ==
    \E r \in RunIds :
        /\ runs[r].pc = "page"
        /\ \/ runs' = [runs EXCEPT ![r].pc = "body", ![r].body = "running"]
           \/ runs' = [runs EXCEPT ![r].pc = "disconnect", ![r].result = "RUN_EXEC_ERROR"]
        /\ UNCHANGED <<locks, daemonVars, relayVars, launchVars>>

\* Promise.race([runPromise, createTimeoutPromise(...)]): the body returns,
\* the body throws, or the timeout fires first.  The timeout rejects the race
\* and leaves runPromise running.
RunBodyReturns ==
    \E r \in RunIds :
        /\ runs[r].pc = "body"
        /\ runs' = [runs EXCEPT ![r].pc = "disconnect", ![r].body = "done",
                                ![r].result = "ok"]
        /\ UNCHANGED <<locks, daemonVars, relayVars, launchVars>>

RunBodyThrows ==
    \E r \in RunIds :
        /\ runs[r].pc = "body"
        /\ runs' = [runs EXCEPT ![r].pc = "disconnect", ![r].body = "done",
                                ![r].result = "RUN_EXEC_ERROR"]
        /\ UNCHANGED <<locks, daemonVars, relayVars, launchVars>>

RunTimeout ==
    \E r \in RunIds :
        /\ runs[r].pc = "body"
        /\ runs' = [runs EXCEPT ![r].pc = "disconnect", ![r].result = "RUN_TIMEOUT"]
        /\ UNCHANGED <<locks, daemonVars, relayVars, launchVars>>

\* A body that lost the race ends by itself.
RunBodyEndsLate ==
    \E r \in RunIds :
        /\ runs[r].pc \notin {"body", "exited"}
        /\ runs[r].body = "running"
        /\ runs' = [runs EXCEPT ![r].body = "done"]
        /\ UNCHANGED <<locks, daemonVars, relayVars, launchVars>>

\* finally { await client.disconnect(); }
RunDisconnect ==
    \E r \in RunIds :
        /\ runs[r].pc = "disconnect"
        /\ runs' = [runs EXCEPT ![r].pc = "release", ![r].client = "disconnected"]
        /\ UNCHANGED <<locks, daemonVars, relayVars, launchVars>>

RunRelease ==
    \E r \in RunIds :
        /\ runs[r].pc = "release"
        /\ Release(r)
        /\ runs' = [runs EXCEPT ![r].pc = "exit"]
        /\ UNCHANGED <<daemonVars, relayVars, launchVars>>

\* The result is printed and the process ends: by process.exit(1) when the
\* run failed or threw, which ends a body that is still running, or when
\* nothing is left to run.
RunExit ==
    \E r \in RunIds :
        /\ runs[r].pc = "exit"
        /\ runs[r].result # "ok" \/ runs[r].body # "running"
        /\ runs' = [runs EXCEPT ![r].pc = "exited",
                                ![r].body = IF @ = "running" THEN "done" ELSE @]
        /\ UNCHANGED <<locks, daemonVars, relayVars, launchVars>>

\* ---------------------------------------------------------- daemon (CLI)
\* The managed state file of a mode (pid, engine and the port of serverUrl).
NoState == [pid |-> 0, engine |-> "", port |-> 0]

\* A process: kind "none" (pid never used), "boot" (worker spawned, not yet
\* listening), "daemon" (listening on its port), "dead".
NoProc == [kind |-> "none", mode |-> "", engine |-> "", port |-> 0]
Dead == [NoProc EXCEPT !.kind = "dead"]

\* An ensureDaemon call: its options (engine "" = no --engine), the state it
\* read and the worker it spawned.
NoCall == [pc |-> "idle", mode |-> "", engine |-> "", port |-> 0,
           existing |-> NoState, bootstrapPid |-> 0]

\* GET /health of a daemon; NoHealth is getHealth's null.
NoHealth == [mode |-> "", engine |-> "", pid |-> 0]

\* What a step of a daemon command did: the health response it saw, the
\* payload it returned (returned, startedNow, pid) or that it threw, the pids
\* it spawned and signalled, the modes whose files it removed.
Done(op, c) ==
    [op |-> op, caller |-> c, health |-> NoHealth, returned |-> FALSE,
     thrown |-> FALSE, startedNow |-> FALSE, pid |-> 0, staleOnly |-> FALSE,
     spawned |-> {}, signalled |-> {}, removed |-> {}]

\* isProcessAlive: process.kill(pid, 0) succeeds
isProcessAlive(pid) == pid \in Pids /\ procs[pid].kind \in {"boot", "daemon"}

\* The daemon listening on a port (a port is bound by one process at most).
Listening(port) == {pid \in Pids : procs[pid].kind = "daemon" /\ procs[pid].port = port}

HealthAt(port) ==
    IF Listening(port) = {} THEN NoHealth
    ELSE LET pid == CHOOSE d \in Listening(port) : TRUE
         IN [mode |-> procs[pid].mode, engine |-> procs[pid].engine, pid |-> pid]

\* parsed.engine ?? "patchright"
requestedEngine(call) == IF call.engine = "" THEN "patchright" ELSE call.engine

\* health.engine ?? existingState.engine ?? "patchright", in launch mode
existingEngine(call, health) ==
    IF call.mode # "launch" THEN ""
    ELSE IF health.engine # "" THEN health.engine
    ELSE IF call.existing.engine # "" THEN call.existing.engine
    ELSE "patchright"

EngineMismatchDefault(call, health) ==
    call.mode = "launch" /\ existingEngine(call, health) # requestedEngine(call)

\* mode === "launch" && parsed.engine && existingEngine !== requestedEngine
EngineMismatch(call, health) ==
    call.mode = "launch" /\ call.engine # ""
       /\ existingEngine(call, health) # requestedEngine(call)

\* removeManagedState, removePid, then the worker is spawned detached and the
\* call waits for its health.
RemoveAndSpawn(c, call, d) ==
    \E pid \in Pids :
        /\ procs[pid].kind = "none"
        /\ \A q \in Pids : q < pid => procs[q].kind # "none"
        /\ stateFile' = [stateFile EXCEPT ![call.mode] = NoState]
        /\ pidFile' = [pidFile EXCEPT ![call.mode] = 0]
        /\ procs' = [procs EXCEPT ![pid] =
                        [kind |-> "boot", mode |-> call.mode,
                         engine |-> IF call.mode = "launch" THEN requestedEngine(call) ELSE "",
                         port |-> call.port]]
        /\ calls' = [calls EXCEPT ![c] = [call EXCEPT !.pc = "wait", !.bootstrapPid = pid]]
        /\ done' = [d EXCEPT !.spawned = {pid}, !.removed = {call.mode}]

\* ensureDaemon up to its first await: the state file is read; a live pid in
\* it leads to the health request, anything else to a new worker.
EnsureStart(modes, engines, ports) ==
    \E c \in Callers : \E mode \in modes : \E engine \in engines : \E port \in ports :
        LET existing == stateFile[mode]
            call == [NoCall EXCEPT !.mode = mode, !.engine = engine, !.port = port,
                                   !.existing = existing]
        IN /\ calls[c].pc = "idle"
           /\ \A q \in Callers : q < c => calls[q].pc # "idle"
           /\ IF existing # NoState /\ isProcessAlive(existing.pid)
              THEN /\ calls' = [calls EXCEPT ![c] = [call EXCEPT !.pc = "health"]]
                   /\ done' = Done("EnsureStart", c)
                   /\ UNCHANGED <<stateFile, pidFile, procs>>
              ELSE RemoveAndSpawn(c, call, Done("EnsureStart", c))
           /\ UNCHANGED <<runVars, relayVars, launchVars>>

\* ensureDaemon after getHealth(existingState.serverUrl, 1000): the daemon at
\* that url answered, or nothing did within the second (null).
EnsureHealth ==
    \E c \in Callers : \E health \in {NoHealth, HealthAt(calls[c].existing.port)} :
        LET call == calls[c]
            d == [Done("EnsureHealth", c) EXCEPT !.health = health]
        IN /\ call.pc = "health"
           /\ IF health # NoHealth /\ health.mode = call.mode /\ ~EngineMismatch(call, health)
              THEN /\ calls' = [calls EXCEPT ![c] = NoCall]
                   /\ done' = [d EXCEPT !.returned = TRUE, !.startedNow = FALSE,
                                        !.pid = call.existing.pid]
                   /\ UNCHANGED <<stateFile, pidFile, procs>>
              ELSE RemoveAndSpawn(c, call,
                       [d EXCEPT !.signalled =
                            IF health = NoHealth \/ health.mode = call.mode
                            THEN {call.existing.pid} ELSE {}])
           /\ UNCHANGED <<runVars, relayVars, launchVars>>

\* ensureDaemon after waitForHealth(serverUrl, 15000, 200): it timed out, or
\* the daemon listening on the requested port answered; a wrong mode or engine
\* ends the call with an error, otherwise the pid file and the state file are
\* written with the pid of the daemon that answered.
EnsureWaited ==
    \E c \in Callers :
        LET call == calls[c]
            health == HealthAt(call.port)
            d == [Done("EnsureWaited", c) EXCEPT !.health = health]
        IN /\ call.pc = "wait"
           /\ IF \/ health = NoHealth
                 \/ health.mode # call.mode
                 \/ call.mode = "launch" /\ call.engine # ""
                       /\ (IF health.engine = "" THEN "patchright" ELSE health.engine)
                             # requestedEngine(call)
              THEN /\ done' = [d EXCEPT !.thrown = TRUE, !.signalled = {call.bootstrapPid}]
                   /\ UNCHANGED <<stateFile, pidFile>>
              ELSE /\ pidFile' = [pidFile EXCEPT ![call.mode] = health.pid]
                   /\ stateFile' = [stateFile EXCEPT ![call.mode] =
                                      [pid |-> health.pid,
                                       engine |-> IF call.mode = "launch"
                                                  THEN requestedEngine(call) ELSE "",
                                       port |-> call.port]]
                   /\ done' = [d EXCEPT !.returned = TRUE, !.startedNow = TRUE,
                                        !.pid = health.pid]
           /\ calls' = [calls EXCEPT ![c] = NoCall]
           /\ UNCHANGED <<procs, runVars, relayVars, launchVars>>

shouldRemoveAll(mode, staleOnly) ==
    ~(stateFile[mode] = NoState /\ pidFile[mode] = 0)

\* cleanDaemon, one mode of its loop: whether the mode's files are removed.
shouldRemove(mode, staleOnly) ==
    LET state == stateFile[mode]
        pid == pidFile[mode]
        alivePid == pid # 0 /\ isProcessAlive(pid)
    IN /\ ~(state = NoState /\ pid = 0)
       /\ IF staleOnly THEN ~alivePid ELSE TRUE

\* cleanDaemon: both modes, then the lock directory unless --stale-only.
Clean ==
    \E staleOnly \in BOOLEAN :
        LET removed == {mode \in Modes : shouldRemove(mode, staleOnly)}
            signalled == {stateFile[mode].pid : mode \in
                             {m \in removed : /\ stateFile[m].pid # 0
                                              /\ isProcessAlive(stateFile[m].pid)
                                              /\ ~staleOnly}}
        IN /\ stateFile' = [mode \in Modes |->
                               IF mode \in removed THEN NoState ELSE stateFile[mode]]
           /\ pidFile' = [mode \in Modes |-> IF mode \in removed THEN 0 ELSE pidFile[mode]]
           /\ locks' = IF staleOnly THEN locks ELSE [page \in Names |-> 0]
           /\ done' = [Done("Clean", 0) EXCEPT !.returned = TRUE, !.staleOnly = staleOnly,
                                               !.removed = removed, !.signalled = signalled]
           /\ UNCHANGED <<procs, calls, runs, relayVars, launchVars>>

\* A spawned worker starts listening, or ends because its port is in use.
WorkerBoot ==
    \E pid \in Pids :
        /\ procs[pid].kind = "boot"
        /\ procs' = [procs EXCEPT ![pid] =
                        IF Listening(procs[pid].port) = {}
                        THEN [@ EXCEPT !.kind = "daemon"] ELSE Dead]
        /\ done' = Done("WorkerBoot", 0)
        /\ UNCHANGED <<stateFile, pidFile, calls, runVars, relayVars, launchVars>>

\* A process ends: a signal it was sent, its idle timeout, a crash.
ProcExit ==
    \E pid \in Pids :
        /\ procs[pid].kind \in {"boot", "daemon"}
        /\ procs' = [procs EXCEPT ![pid] = Dead]
        /\ done' = Done("ProcExit", 0)
        /\ UNCHANGED <<stateFile, pidFile, calls, runVars, relayVars, launchVars>>

\* ----------------------------------------------------------------- actions
NoCmd == [id |-> 0, sessionId |-> 0, method |-> "", targetId |-> 0, discover |-> FALSE]

\* ------------------------------------------------- launch-mode server
\* The HTTP server of launch mode keeps its own page registry.  A page is
\* "none" (not created), "open" or "closed"; onClose is the name its close
\* handler deletes (0: no handler registered).  A request handler is idle, or
\* suspended at an await: "newPage" (context.newPage), "getTargetId"
\* (setViewportSize and getTargetId), "close" (entry.page.close()).
NoPage == [state |-> "none", onClose |-> 0]
NoLaunchReq == [pc |-> "idle", name |-> 0, page |-> 0]
NoLaunchOut == [status |-> 0, name |-> 0, targetId |-> 0]
LaunchAnswer(status, name, targetId) ==
    [status |-> status, name |-> name, targetId |-> targetId]

\* POST /pages up to its first await: answer from the registry, or start
\* creating a page.
LaunchPostPages(names) ==
    \E r \in LaunchReqs : \E name \in names :
        /\ launchUp
        /\ reqs[r].pc = "idle"
        /\ IF registry[name] # 0
           THEN /\ launchOut' = LaunchAnswer(200, name, registry[name])
                /\ UNCHANGED reqs
           ELSE /\ reqs' = [reqs EXCEPT ![r] = [pc |-> "newPage", name |-> name, page |-> 0]]
                /\ launchOut' = NoLaunchOut
        /\ UNCHANGED <<registry, pages, launchUp, relayVars, cliVars>>

\* context.newPage() resolves with a new page.
LaunchNewPage ==
    \E r \in LaunchReqs : \E p \in PageIds :
        /\ launchUp
        /\ reqs[r].pc = "newPage"
        /\ pages[p].state = "none"
        /\ \A q \in PageIds : q < p => pages[q].state # "none"
        /\ pages' = [pages EXCEPT ![p].state = "open"]
        /\ reqs' = [reqs EXCEPT ![r].pc = "getTargetId", ![r].page = p]
        /\ launchOut' = NoLaunchOut
        /\ UNCHANGED <<registry, launchUp, relayVars, cliVars>>

\* getTargetId resolves: registry.set(name, entry), page.on("close", ...),
\* and the answer.
LaunchBind ==
    \E r \in LaunchReqs :
        /\ launchUp
        /\ reqs[r].pc = "getTargetId"
        /\ pages[reqs[r].page].state = "open"
        /\ registry' = [registry EXCEPT ![reqs[r].name] = reqs[r].page]
        /\ pages' = [pages EXCEPT ![reqs[r].page].onClose = reqs[r].name]
        /\ launchOut' = LaunchAnswer(200, reqs[r].name, reqs[r].page)
        /\ reqs' = [reqs EXCEPT ![r] = NoLaunchReq]
        /\ UNCHANGED <<launchUp, relayVars, cliVars>>

\* A page closes (DELETE /pages, a client, the user): its close handler, if
\* registered, runs registry.delete(name).
LaunchPageClose ==
    \E p \in PageIds :
        /\ launchUp
        /\ pages[p].state = "open"
        /\ pages' = [pages EXCEPT ![p].state = "closed"]
        /\ registry' = IF pages[p].onClose # 0
                       THEN [registry EXCEPT ![pages[p].onClose] = 0]
                       ELSE registry
        /\ launchOut' = NoLaunchOut
        /\ UNCHANGED <<reqs, launchUp, relayVars, cliVars>>

\* DELETE /pages/:name up to its await: 404, or entry.page.close().
LaunchDeletePages(names) ==
    \E r \in LaunchReqs : \E name \in names :
        /\ launchUp
        /\ reqs[r].pc = "idle"
        /\ IF registry[name] = 0
           THEN /\ launchOut' = LaunchAnswer(404, name, 0)
                /\ UNCHANGED reqs
           ELSE /\ reqs' = [reqs EXCEPT ![r] = [pc |-> "close", name |-> name,
                                                page |-> registry[name]]]
                /\ launchOut' = NoLaunchOut
        /\ UNCHANGED <<registry, pages, launchUp, relayVars, cliVars>>

\* entry.page.close() resolves: registry.delete(name) and the answer.
LaunchDeleteClosed ==
    \E r \in LaunchReqs :
        /\ launchUp
        /\ reqs[r].pc = "close"
        /\ pages[reqs[r].page].state = "closed"
        /\ registry' = [registry EXCEPT ![reqs[r].name] = 0]
        /\ launchOut' = LaunchAnswer(200, reqs[r].name, 0)
        /\ reqs' = [reqs EXCEPT ![r] = NoLaunchReq]
        /\ UNCHANGED <<pages, launchUp, relayVars, cliVars>>

\* An awaited call of a handler rejects (newPage times out, the page closed
\* before getTargetId, close fails).  Depending on the Express version the
\* rejection is answered with 500, or it is an unhandled rejection and
\* errorHandler cleans up and exits: every page closed, the registry cleared.
LaunchHandlerFails ==
    \E r \in LaunchReqs :
        /\ launchUp
        /\ \/ reqs[r].pc = "newPage"
           \/ reqs[r].pc = "getTargetId" /\ pages[reqs[r].page].state = "closed"
           \/ reqs[r].pc = "close" /\ pages[reqs[r].page].state = "open"
        /\ \/ /\ launchOut' = LaunchAnswer(500, reqs[r].name, 0)
              /\ reqs' = [reqs EXCEPT ![r] = NoLaunchReq]
              /\ UNCHANGED <<registry, pages, launchUp>>
           \/ /\ launchUp' = FALSE
              /\ registry' = [name \in Names |-> 0]
              /\ pages' = [p \in PageIds |->
                             IF pages[p].state = "open"
                             THEN [pages[p] EXCEPT !.state = "closed"] ELSE pages[p]]
              /\ reqs' = [q \in LaunchReqs |-> NoLaunchReq]
              /\ launchOut' = NoLaunchOut
        /\ UNCHANGED <<relayVars, cliVars>>

Start(on) ==
    /\ connectedTargets = <<>>
    /\ namedPages = <<>>
    /\ patchrightClients = <<>>
    /\ extensionWs = 0
    /\ extensionPendingRequests = <<>>
    /\ extensionMessageId = 0
    /\ timers = {}
    /\ sleeping = {}
    /\ extState = [ws \in ExtSockets |-> "new"]
    /\ cliState = [ws \in Sockets |-> "new"]
    /\ extInbox = [ws \in ExtSockets |-> {}]
    /\ tabs = {}
    /\ out = <<>>
    /\ ev = Event("init", 0, NoCmd)
    /\ hist = [on |-> on, stale |-> {}, timedOut |-> {}, log |-> <<>>, deleted |-> {},
               auto |-> {}, told |-> [ws \in Sockets |-> [t \in TargetIds |-> 0]]]
    /\ locks = [page \in Names |-> 0]
    /\ runs = [r \in RunIds |-> NoRun]
    /\ stateFile = [mode \in Modes |-> NoState]
    /\ pidFile = [mode \in Modes |-> 0]
    /\ procs = [pid \in Pids |-> NoProc]
    /\ calls = [c \in Callers |-> NoCall]
    /\ done = Done("init", 0)
    /\ registry = [name \in Names |-> 0]
    /\ pages = [p \in PageIds |-> NoPage]
    /\ reqs = [r \in LaunchReqs |-> NoLaunchReq]
    /\ launchOut = NoLaunchOut
    /\ launchUp = TRUE

Init == Start(FALSE)

\* A socket delivers messages until its close event has been processed, also
\* while the relay's own close of it is still in flight.
Delivering(state) == state \in {"open", "closing"}

\* A browser-side socket connects (sockets are used in the order of their numbers).
ExtensionOpen ==
    \E ws \in ExtSockets :
        /\ extState[ws] = "new"
        /\ \A w \in ExtSockets : w < ws => extState[w] # "new"
        /\ Apply(ExtOnOpen(State, ws), ConnectionEvent("ExtOnOpen", ws))

\* The close event of a browser-side socket (nothing it was sent is answered
\* afterwards).
ExtensionClose ==
    \E ws \in ExtSockets :
        /\ Delivering(extState[ws])
        /\ Apply(ExtOnClose([State EXCEPT !.extInbox[ws] = {}], ws),
                 ConnectionEvent("ExtOnClose", ws))

\* The extension answers a command it was sent: an error, or a result; the
\* result of Target.createTarget names a tab no message named before.
ReplyEvent(ws, id, method, targetId) ==
    [Event("ExtOnReply", ws, [NoCmd EXCEPT !.id = id, !.method = method,
                                           !.targetId = targetId])
     EXCEPT !.late = id \in hist.timedOut]

ExtensionReply ==
    \E ws \in ExtSockets : \E m \in extInbox[ws] :
        /\ Delivering(extState[ws])
        /\ LET st == [State EXCEPT !.extInbox[ws] = @ \ {m}]
           IN \/ Apply(ExtOnReply(st, ws, m.id, Rejected("extension error")),
                       ReplyEvent(ws, m.id, "error", 0))
              \/ /\ m.method # "Target.createTarget"
                 /\ Apply(ExtOnReply(st, ws, m.id, Resolved(0)),
                          ReplyEvent(ws, m.id, "result", 0))
              \/ /\ m.method = "Target.createTarget"
                 /\ \E t \in TargetIds \ tabs :
                      Apply(ExtOnReply([st EXCEPT !.tabs = @ \cup {t}], ws, m.id, Resolved(t)),
                            ReplyEvent(ws, m.id, "result", t))

ExtensionAttached(sessions, urls) ==
    \E ws \in ExtSockets : \E s \in sessions : \E url \in urls :
        /\ Delivering(extState[ws])
        /\ Apply(ExtOnAttached([State EXCEPT !.tabs = @ \cup {TargetOf(s)}],
                               ConnectedTarget(s, url)),
                 Event("ExtOnAttached", ws, [NoCmd EXCEPT !.sessionId = s,
                                                          !.targetId = TargetOf(s)]))

ExtensionDetached(sessions) ==
    \E ws \in ExtSockets : \E s \in sessions :
        /\ Delivering(extState[ws])
        /\ Apply(ExtOnDetached(State, s),
                 [Event("ExtOnDetached", ws, [NoCmd EXCEPT !.sessionId = s])
                  EXCEPT !.was.names = Len(namedPages),
                         !.was.targets = Len(connectedTargets)])

ExtensionInfoChanged(urls) ==
    \E ws \in ExtSockets : \E t \in tabs : \E url \in urls :
        /\ Delivering(extState[ws])
        /\ Apply(ExtOnInfoChanged(State, [targetId |-> t, url |-> url]),
                 Event("ExtOnInfoChanged", ws, [NoCmd EXCEPT !.targetId = t]))

ExtensionEvent(sessions) ==
    \E ws \in ExtSockets : \E s \in sessions :
        /\ Delivering(extState[ws])
        /\ Apply(ExtOnEvent(State, "Page.loadEventFired", s),
                 Event("ExtOnEvent", ws, [NoCmd EXCEPT !.sessionId = s]))

ClientOpen(sockets) ==
    \E ws \in sockets :
        /\ cliState[ws] = "new"
        /\ Apply(CliOnOpen(State, ws), Event("CliOnOpen", ws, NoCmd))

ClientClose ==
    \E ws \in Sockets :
        /\ Delivering(cliState[ws])
        /\ Apply(CliOnClose(State, ws), Event("CliOnClose", ws, NoCmd))

\* The actions that may send to the extension take the cap on the request id.
ApplyCapped(st, e, cap) == st.extensionMessageId <= cap /\ Apply(st, e)

ClientMessage(commands, cap) ==
    \E ws \in Sockets : \E cmd \in commands :
        /\ Delivering(cliState[ws])
        /\ ApplyCapped(CliOnMessage(State, ws, cmd), Event("CliOnMessage", ws, cmd), cap)

HttpPostPages(names, cap) ==
    \E name \in names :
        /\ name \in Names
        /\ ApplyCapped(PostPages(State, name),
                       Event("PostPages", 0, [NoCmd EXCEPT !.id = name]), cap)

HttpPostPagesAfterWait(cap) ==
    \E rec \in sleeping :
        /\ rec.name \in Names
        /\ ApplyCapped(PostPagesAfterWait(State, rec),
                       Event("PostPagesAfterWait", 0, [NoCmd EXCEPT !.id = rec.name]), cap)

HttpDeletePages(names) ==
    \E name \in names :
        /\ name \in Names
        /\ Apply(DeletePages(State, name), Event("DeletePages", 0, [NoCmd EXCEPT !.id = name]))

HttpGetPages ==
    /\ Apply(GetPages(State), Event("GetPages", 0, NoCmd))
    /\ Len(out') = 1

Timeout ==
    \E req \in timers :
        Apply(RequestTimeout(State, req), Event("Timeout", 0, [NoCmd EXCEPT !.id = req]))

\* ---------------------------------------------------------- specifications
\* Spec: the browser-side connection's life (connect, replace, close) with
\* everything that depends on it: two clients with different ids, a forwarded
\* command, targets, one named page, timeouts.
OddSockets == {ws \in Sockets : ws % 2 = 1}
ForwardedCommands == {Command(id, 1, "Page.navigate", 0, FALSE) : id \in CmdIds}

Next ==
    \/ ExtensionOpen
    \/ ExtensionClose
    \/ ExtensionReply
    \/ ExtensionAttached({1}, {0})
    \/ ExtensionDetached({1})
    \/ ClientOpen(OddSockets)
    \/ ClientClose
    \/ ClientMessage(ForwardedCommands, MaxReq)
    \/ HttpPostPages({1}, MaxReq)
    \/ HttpPostPagesAfterWait(MaxReq)
    \/ Timeout

Spec == Init /\ [][Next]_vars

\* SpecClients: the client connections, with two sockets that use the same
\* client id, commands the relay answers itself and a forwarded one,
\* broadcast events.
ClientCommands ==
    {Command(id, 0, "Target.getTargets", 0, FALSE) : id \in CmdIds}
        \cup {Command(id, 1, "Page.navigate", 0, FALSE) : id \in CmdIds}

NextClients ==
    \/ ExtensionOpen
    \/ ExtensionClose
    \/ ExtensionReply
    \/ ExtensionAttached({1}, {0})
    \/ ExtensionEvent({1})
    \/ ClientOpen(Sockets)
    \/ ClientClose
    \/ ClientMessage(ClientCommands, MaxCmd)

SpecClients == Init /\ [][NextClients]_vars

\* SpecPages: the Named Page Directory under every interleaving of POST
\* /pages (also concurrent calls), DELETE and GET /pages, attach and detach
\* events, browser-side connects, replacements and closes, timeouts.
NextPages ==
    \/ ExtensionOpen
    \/ ExtensionClose
    \/ ExtensionReply
    \/ ExtensionAttached(Sessions, {0})
    \/ ExtensionDetached(Sessions)
    \/ HttpPostPages(Names, MaxPageReq)
    \/ HttpPostPagesAfterWait(MaxPageReq)
    \/ HttpDeletePages(Names)
    \/ HttpGetPages
    \/ Timeout

SpecPages == Init /\ [][NextPages]_vars

\* SpecGetOrCreate: a caller that issues its POST /pages calls one after the
\* other (the next call when the previous one has returned), with the log of
\* the calls kept.
PostInFlight ==
    \/ sleeping # {}
    \/ \E id \in DOMAIN extensionPendingRequests :
          extensionPendingRequests[id].kind \in {"reuse", "create", "activate"}

HttpPostPagesInTurn(names, cap) ==
    /\ ~PostInFlight
    /\ HttpPostPages(names, cap)

NextGetOrCreate ==
    \/ ExtensionOpen
    \/ ExtensionClose
    \/ ExtensionReply
    \/ ExtensionAttached(Sessions, {0})
    \/ ExtensionDetached(Sessions)
    \/ HttpPostPagesInTurn({1}, MaxPageReq)
    \/ HttpPostPagesAfterWait(MaxPageReq)
    \/ HttpDeletePages({1})
    \/ Timeout

SpecGetOrCreate == Start(TRUE) /\ [][NextGetOrCreate]_vars

\* SpecDeleted: the caller of SpecGetOrCreate, who also lists the pages.
NextDeleted ==
    \/ ExtensionOpen
    \/ ExtensionClose
    \/ ExtensionReply
    \/ ExtensionAttached(Sessions, {0})
    \/ ExtensionDetached(Sessions)
    \/ HttpPostPagesInTurn({1}, MaxDeletedReq)
    \/ HttpPostPagesAfterWait(MaxDeletedReq)
    \/ HttpDeletePages({1})
    \/ HttpGetPages
    \/ Timeout

SpecDeleted == Start(TRUE) /\ [][NextDeleted]_vars

\* SpecAttach: clients that enable auto-attach (sockets 1 and 2 use the same
\* client id), attach and detach events, browser-side connects and closes, in
\* every order.
AutoAttachCommands == {Command(id, 0, "Target.setAutoAttach", 0, FALSE) : id \in CmdIds}

NextAttach ==
    \/ ExtensionOpen
    \/ ExtensionClose
    \/ ExtensionAttached(Sessions, {0})
    \/ ExtensionDetached(Sessions)
    \/ ClientOpen(Sockets)
    \/ ClientClose
    \/ ClientMessage(AutoAttachCommands, MaxReq)

SpecAttach == Start(TRUE) /\ [][NextAttach]_vars

\* SpecTargets: the Target Registry under attach, detach and info-changed
\* events in every order, browser-side connects, replacements and closes.
NextTargets ==
    \/ ExtensionOpen
    \/ ExtensionClose
    \/ ExtensionAttached(Sessions, Urls)
    \/ ExtensionDetached(Sessions)
    \/ ExtensionInfoChanged(Urls)

SpecTargets == Init /\ [][NextTargets]_vars

\* SpecRun: `run` invocations on the same and on different page names, every
\* outcome of each step, in every interleaving of the processes.
NextRun ==
    \/ RunStart
    \/ RunLock
    \/ RunConnect
    \/ RunPage
    \/ RunBodyReturns
    \/ RunBodyThrows
    \/ RunTimeout
    \/ RunBodyEndsLate
    \/ RunDisconnect
    \/ RunRelease
    \/ RunExit

SpecRun == Init /\ [][NextRun]_vars

\* SpecDaemon: `daemon ensure` calls on one port (also two at once, with
\* every mode and engine), `daemon clean` with and without --stale-only,
\* workers that start or fail to, processes that end, in every order.
NextDaemon ==
    \/ EnsureStart(Modes, Engines \cup {""}, {1})
    \/ EnsureHealth
    \/ EnsureWaited
    \/ Clean
    \/ WorkerBoot
    \/ ProcExit

SpecDaemon == Init /\ [][NextDaemon]_vars

\* SpecClean: as SpecDaemon, with ensure calls of both modes that name
\* either port and no engine.
NextClean ==
    \/ EnsureStart(Modes, {""}, Ports)
    \/ EnsureHealth
    \/ EnsureWaited
    \/ Clean
    \/ WorkerBoot
    \/ ProcExit

SpecClean == Init /\ [][NextClean]_vars

\* SpecNotify: clients (sockets 1 and 2 use the same client id) that send the
\* commands which trigger notifications, attach and detach events,
\* browser-side connects, replacements and closes, in every order.
NotifyCommands ==
    {Command(id, 0, "Target.setAutoAttach", 0, FALSE) : id \in CmdIds}
      \cup {Command(id, 0, "Target.attachToTarget", t, FALSE) : id \in CmdIds, t \in TargetIds}
      \cup {Command(id, 0, "Target.setDiscoverTargets", 0, d) : id \in CmdIds, d \in BOOLEAN}

NextNotify ==
    \/ ExtensionOpen
    \/ ExtensionClose
    \/ ExtensionAttached({1}, {0})
    \/ ExtensionDetached({1})
    \/ ClientOpen(Sockets)
    \/ ClientClose
    \/ ClientMessage(NotifyCommands, MaxReq)

SpecNotify == Start(TRUE) /\ [][NextNotify]_vars

\* SpecRouting: every method routeCdpCommand knows and two it forwards, sent
\* by one client while targets attach, names are bound and the browser side
\* connects, answers and closes.
RoutedCommands ==
    {Command(id, 0, m, 0, FALSE) :
        id \in CmdIds,
        m \in {"Browser.getVersion", "Target.setAutoAttach", "Target.getBrowserContexts",
               "Target.createBrowserContext", "Target.attachToBrowserTarget",
               "Target.getTargets", "Target.createTarget"}}
      \cup {Command(id, 0, m, t, FALSE) :
              id \in CmdIds, m \in {"Target.attachToTarget", "Target.getTargetInfo"},
              t \in {0, 1}}
      \cup {Command(id, 0, "Target.setDiscoverTargets", 0, TRUE) : id \in CmdIds}
      \cup {Command(id, 1, "Page.navigate", 0, FALSE) : id \in CmdIds}

NextRouting ==
    \/ ExtensionOpen
    \/ ExtensionClose
    \/ ExtensionReply
    \/ ExtensionAttached({1}, {0})
    \/ ClientOpen({1})
    \/ ClientMessage(RoutedCommands, MaxReq)
    \/ HttpPostPages({1}, MaxReq)
    \/ HttpPostPagesAfterWait(MaxReq)

SpecRouting == Init /\ [][NextRouting]_vars

\* SpecPass: clients (sockets 1 and 2 use the same client id) that send
\* Target.setAutoAttach, with and without a sessionId, and
\* Target.setDiscoverTargets while two targets attach and the browser side
\* connects and is replaced.
PassCommands ==
    {Command(id, s, "Target.setAutoAttach", 0, FALSE) : id \in CmdIds, s \in {0, 1}}
      \cup {Command(id, 0, "Target.setDiscoverTargets", 0, TRUE) : id \in CmdIds}

NextPass ==
    \/ ExtensionOpen
    \/ ExtensionAttached(Sessions, {0})
    \/ ClientOpen(Sockets)
    \/ ClientClose
    \/ ClientMessage(PassCommands, MaxReq)

SpecPass == Start(TRUE) /\ [][NextPass]_vars

\* SpecReattach: one tab that attaches, detaches and attaches again under
\* another session id, while clients with distinct ids connect, enable
\* auto-attach and close.
ReattachSessions == {s \in 1..(MaxSessions + 1) : TargetOf(s) = 1}

NextReattach ==
    \/ ExtensionOpen
    \/ ExtensionAttached(ReattachSessions, {0})
    \/ ExtensionDetached(ReattachSessions)
    \/ ClientOpen(OddSockets)
    \/ ClientClose
    \/ ClientMessage(AutoAttachCommands, MaxReq)

SpecReattach == Init /\ [][NextReattach]_vars

\* SpecUnbind: DELETE /pages at any time while a caller binds two names one
\* POST /pages after the other, targets attach and a client is connected.
NextUnbind ==
    \/ ExtensionOpen
    \/ ExtensionReply
    \/ ExtensionAttached(Sessions, {0})
    \/ ClientOpen({1})
    \/ HttpPostPagesInTurn(Names, MaxDeletedReq)
    \/ HttpPostPagesAfterWait(MaxDeletedReq)
    \/ HttpDeletePages(Names)

SpecUnbind == Init /\ [][NextUnbind]_vars

\* SpecInfo: target-info-changed events for registered and for unregistered
\* tabs, while a name is bound and two clients connect and close.
NextInfo ==
    \/ ExtensionOpen
    \/ ExtensionReply
    \/ ExtensionAttached(Sessions, Urls)
    \/ ExtensionInfoChanged(Urls)
    \/ ClientOpen({2, 3})
    \/ ClientClose
    \/ HttpPostPagesInTurn({1}, MaxReq)
    \/ HttpPostPagesAfterWait(MaxReq)

SpecInfo == Init /\ [][NextInfo]_vars

\* SpecQuery: Target.attachToTarget and Target.getTargetInfo, with no
\* targetId, with the targetId of a registered target and with one of no
\* registered target, while two targets attach, change their info and detach.
QueryCommands ==
    {Command(id, 0, m, t, FALSE) :
        id \in CmdIds, m \in {"Target.attachToTarget", "Target.getTargetInfo"},
        t \in {0} \cup TargetIds}

NextQuery ==
    \/ ExtensionOpen
    \/ ExtensionClose
    \/ ExtensionAttached(Sessions, Urls)
    \/ ExtensionDetached(Sessions)
    \/ ClientOpen({1})
    \/ ClientMessage(QueryCommands, MaxReq)

SpecQuery == Init /\ [][NextQuery]_vars

\* SpecLaunch: the launch-mode server's page registry under overlapping POST
\* /pages and DELETE /pages for two names, pages closing at any time, and
\* awaited calls that fail.
NextLaunch ==
    \/ LaunchPostPages(Names)
    \/ LaunchNewPage
    \/ LaunchBind
    \/ LaunchPageClose
    \/ LaunchDeletePages(Names)
    \/ LaunchDeleteClosed
    \/ LaunchHandlerFails

SpecLaunch == Init /\ [][NextLaunch]_vars

\* ------------------------------------------------------------- vocabulary
InRegistry(ws) ==
    /\ ClientIdOf(ws) \in DOMAIN patchrightClients
    /\ patchrightClients[ClientIdOf(ws)].ws = ws

\* The step just taken replaced the browser-side connection / closed the
\* current one (or ran onClose with none current).
Replaced == ev.h = "ExtOnOpen" /\ ev.was.current # 0
ClosedCurrent == ev.h = "ExtOnClose" /\ ev.was.current \in {0, ev.ws}

Count(msgs, t) == Len(Pick(msgs, t))

\* ------------------------------------------------------------------ claims

\* C1: a second client connection with a client id that is already connected
\* is rejected and the first stays usable: a client socket that is open (was
\* accepted, and neither closed nor told to close) is in the Client Registry,
\* and a command it sends is answered to it (at once when the relay answers
\* the command itself or no browser side is connected).
C1_DuplicateRejectedFirstUsable ==
    /\ \A ws \in Sockets : cliState[ws] = "open" => InRegistry(ws)
    /\ (ev.h = "CliOnMessage" /\ cliState[ev.ws] = "open"
          /\ (ev.cmd.method \in EmulatedMethods \/ extensionWs = 0))
         => \E i \in 1..Len(out) :
               out[i].t = "cli" /\ out[i].ws = ev.ws /\ out[i].id = ev.cmd.id

\* C2: every session id a name of the Named Page Directory maps to is a key
\* of the Target Registry.
C2_NamesResolveToLiveSessions ==
    \A i \in 1..Len(namedPages) : HasSession(connectedTargets, namedPages[i].sessionId)

C2_Witness ==
    /\ ev.h = "ExtOnDetached"
    /\ ev.was.names = 2
    /\ Len(namedPages) = 1
    /\ Len(connectedTargets) = 1
    /\ ~HasSession(connectedTargets, ev.cmd.sessionId)

\* C3: when a new browser-side connection arrives while one is active, every
\* client connection is forced closed: once the replaced channel's close event
\* has been processed, no client that was registered at the replacement is
\* still registered, and each has been sent a close.
C3_ReplacementClosesClients ==
    \A ws \in hist.stale :
        (\A w \in ExtSockets : w # extensionWs => extState[w] # "closing")
            => (~InRegistry(ws) /\ cliState[ws] # "open")

\* C4: replacing the browser-side connection, in one step, closes the old
\* channel (code 4001), empties the Target Registry and the Named Page
\* Directory, rejects every pending request and empties the pending map, and
\* makes the new channel the current one.
C4_ReplacementTeardown ==
    [][(ev'.h = "ExtOnOpen" /\ extensionWs # 0) =>
          /\ extensionWs' = ev'.ws
          /\ extensionWs' # extensionWs
          /\ extState'[extensionWs] = "closing"
          /\ \E i \in 1..Len(out') :
                out'[i].t = "extClose" /\ out'[i].ws = extensionWs /\ out'[i].id = 4001
          /\ connectedTargets' = <<>>
          /\ namedPages' = <<>>
          /\ DOMAIN extensionPendingRequests' = {}
          /\ timers' = {}
          /\ \A id \in DOMAIN extensionPendingRequests :
                \E i \in 1..Len(out') :
                    /\ out'[i].t = "settle" /\ out'[i].k = "reject" /\ out'[i].id = id
                    /\ out'[i].note = "Extension connection replaced"]_vars

C4_Witness ==
    /\ Replaced
    /\ ev.was.names > 0 /\ ev.was.targets > 0 /\ ev.was.pending > 0
    /\ extensionWs = ev.ws

\* C5: every Target in the registry was registered by the current browser-side
\* connection: the registry is empty while no connection is present, and a
\* message from a replaced channel neither adds nor changes a Target nor
\* settles a pending request.
C5_OnlyCurrentConnectionPopulates ==
    [][/\ extensionWs' = 0 => connectedTargets' = <<>>
       /\ (ev'.h \in {"ExtOnReply", "ExtOnAttached", "ExtOnDetached", "ExtOnInfoChanged"}
             /\ ev'.ws # extensionWs)
            => /\ connectedTargets' = connectedTargets
               /\ extensionPendingRequests' = extensionPendingRequests]_vars

C7_CloseRejectsPending ==
    [][/\ (ev'.h = "ExtOnClose" /\ ev'.ws = extensionWs) =>
             /\ DOMAIN extensionPendingRequests' = {}
             /\ timers' = {}
             /\ \A id \in DOMAIN extensionPendingRequests :
                   \E i \in 1..Len(out') :
                       /\ out'[i].t = "settle" /\ out'[i].k = "reject" /\ out'[i].id = id
                       /\ out'[i].note = "Extension connection closed"
       /\ \A id \in 1..extensionMessageId :
             id \notin DOMAIN extensionPendingRequests =>
                 /\ id \notin DOMAIN extensionPendingRequests'
                 /\ \A i \in 1..Len(out') : out'[i].t = "settle" => out'[i].id # id]_vars

C7_Witness ==
    /\ ev.h = "ExtOnClose" /\ ev.was.current = ev.ws /\ ev.was.pending > 0
    /\ \E i \in 1..Len(out) : out[i].t = "settle" /\ out[i].note = "Extension connection closed"

\* C8: a reconnection of the browser-side channel (its close, or its
\* replacement) leaves no name bound, and a name is bound afterwards only by
\* a get-or-create that binds it.
C8_ReconnectClearsNames ==
    [][/\ ((ev'.h = "ExtOnOpen" /\ extensionWs # 0)
            \/ (ev'.h = "ExtOnClose" /\ ev'.ws = extensionWs)) => namedPages' = <<>>
       /\ \A name \in Names :
             (NamedGet(namedPages', name) # 0
                /\ NamedGet(namedPages', name) # NamedGet(namedPages, name))
               => (ev'.h = "PostPagesAfterWait" /\ ev'.cmd.id = name)]_vars

C8_Witness ==
    /\ (Replaced \/ ClosedCurrent)
    /\ ev.was.names > 0
    /\ namedPages = <<>>

\* The index of the last call of name in log before position i (0 = none).
RECURSIVE CallBefore(_, _, _)
CallBefore(log, name, i) ==
    IF i <= 1 THEN 0
    ELSE IF log[i - 1].t = "call" /\ log[i - 1].name = name THEN i - 1
    ELSE CallBefore(log, name, i - 1)

CountCreates(log, from, to) ==
    Cardinality({k \in from..to : log[k].t = "ext" /\ log[k].k = "Target.createTarget"})

\* C9: a successful POST /pages of an unused name followed by a second
\* successful one of the same name (nothing detached, deleted or reconnected
\* meanwhile) report the same targetId, exactly one Target.createTarget was
\* written to the browser side over the two calls, and the second call wrote
\* only the Target.activateTarget of that target.
C9_GetOrCreateIdempotent ==
    LET log == hist.log
        first(i) == CallBefore(log, log[i].name, i)
    IN \A i, j \in 1..Len(log) :
          (i < j /\ log[i].t = "ret" /\ first(i) # 0 /\ log[first(i)].unused)
          => /\ log[j].t = "ext" =>
                   /\ log[j].k = "Target.activateTarget"
                   /\ log[j].targetId = log[i].targetId
             /\ (/\ log[j].t = "ret" /\ log[i].name = log[j].name
                 /\ \A k \in (i + 1)..(j - 1) : log[k].t # "ret")
                => /\ log[j].targetId = log[i].targetId
                   /\ CountCreates(log, first(i), j) = 1
                   /\ j - i = 3
                   /\ log[i + 1].t = "call" /\ ~log[i + 1].unused
                   /\ log[i + 2].t = "ext"

C9_Witness ==
    /\ Len(hist.log) = 7
    /\ hist.log[1].t = "call" /\ hist.log[1].unused
    /\ hist.log[4].t = "ret" /\ hist.log[7].t = "ret"
    /\ ev.h = "ExtOnReply"

\* The names GET /pages lists.
Listed(msgs) == {msgs[1].data[i] : i \in 1..Len(msgs[1].data)}

\* C11: DELETE /pages/:name unbinds the name, GET /pages lists exactly the
\* bound names (so not a deleted one), the next POST /pages of the name
\* writes a new Target.createTarget and nothing else, and the name is bound
\* again only to the session of the target that call created, never to the
\* session it was bound to when it was deleted.
C11_DeleteThenCreateFresh ==
    [][/\ ev'.h = "DeletePages" => NamedGet(namedPages', ev'.cmd.id) = 0
       /\ ev'.h = "GetPages" =>
             Listed(out') = {namedPages[i].name : i \in 1..Len(namedPages)}
       /\ (ev'.h = "PostPages" /\ NamedGet(namedPages, ev'.cmd.id) = 0 /\ extensionWs # 0)
            => /\ Len(out') = 1
               /\ out'[1].t = "ext" /\ out'[1].k = "Target.createTarget"
               /\ out'[1].ws = extensionWs
       /\ \A d \in hist.deleted' : NamedGet(namedPages', d.name) # d.sessionId
       /\ \A name \in Names :
             (NamedGet(namedPages', name) # 0
                /\ NamedGet(namedPages', name) # NamedGet(namedPages, name))
               => \E rec \in sleeping :
                     /\ rec.name = name /\ rec \notin sleeping'
                     /\ TargetOf(NamedGet(namedPages', name)) = rec.targetId]_vars

\* The name was deleted while bound to one session and is bound again, to
\* another, by the call that has just returned 200.
C11_Witness ==
    /\ hist.deleted # {}
    /\ \E d \in hist.deleted :
          /\ NamedGet(namedPages, d.name) \notin {0, d.sessionId}
          /\ HasSession(connectedTargets, d.sessionId)
    /\ \E i \in 1..Len(out) : out[i].t = "http" /\ out[i].id = 200 /\ out[i].k = "POST /pages"

\* C12: every client that enabled auto-attach and is connected has been sent
\* exactly one Target.attachedToTarget event for each target of the Target
\* Registry, and no client is ever sent two for one target.
C12_OneAttachPerClientAndTarget ==
    /\ \A ws \in hist.auto :
          cliState[ws] = "open" =>
              \A i \in 1..Len(connectedTargets) :
                  hist.told[ws][connectedTargets[i].targetId] = 1
    /\ \A ws \in Sockets : \A t \in TargetIds : hist.told[ws][t] <= 1

\* C13: a command of a connected client that arrives while no browser-side
\* connection is present is answered to that client, and to nobody else, with
\* the error "Extension not connected" carrying the command's id, and changes
\* no registry, no pending request and not the request-id counter.
C13_NotConnectedError ==
    [][(ev'.h = "CliOnMessage" /\ extensionWs = 0 /\ cliState[ev'.ws] = "open") =>
          /\ Len(out') = 1
          /\ out'[1].t = "cli" /\ out'[1].k = "error"
          /\ out'[1].ws = ev'.ws /\ out'[1].id = ev'.cmd.id
          /\ out'[1].note = "Extension not connected"
          /\ UNCHANGED <<connectedTargets, namedPages, patchrightClients, extensionWs,
                         extensionPendingRequests, extensionMessageId, timers>>]_vars

\* C14: when the wait of a POST /pages that created a target ends and no
\* target with the returned targetId is in the Target Registry, the call
\* answers 500 "Target created but not found in registry", writes nothing to
\* the browser side and leaves the Named Page Directory as it was.
C14_CreatedButNotAttached ==
    [][\A rec \in sleeping :
          (/\ ev'.h = "PostPagesAfterWait" /\ rec \notin sleeping'
           /\ IndexOfTargetId(connectedTargets, rec.targetId, 1) = 0)
          => /\ Len(out') = 1
             /\ out'[1].t = "http" /\ out'[1].k = "POST /pages" /\ out'[1].id = 500
             /\ out'[1].name = rec.name
             /\ out'[1].note = "Target created but not found in registry"
             /\ namedPages' = namedPages
             /\ extensionMessageId' = extensionMessageId]_vars

\* Such a call has just failed although another target is registered and the
\* browser side is connected.
C14_Witness ==
    /\ ev.h = "PostPagesAfterWait"
    /\ Len(out) = 1 /\ out[1].id = 500
    /\ out[1].note = "Target created but not found in registry"
    /\ Len(connectedTargets) > 0
    /\ extensionWs # 0
    /\ NamedGet(namedPages, out[1].name) = 0

\* The replies (results and errors, not events) among msgs that carry the
\* command id and sessionId given.
Replies(msgs, id, sessionId) ==
    {i \in 1..Len(msgs) : /\ msgs[i].t = "cli" /\ msgs[i].k \in {"result", "error"}
                          /\ msgs[i].id = id /\ msgs[i].sessionId = sessionId}

\* C15: every command of a connected client gets exactly one reply with its
\* id and sessionId, sent to that client only.  A command the relay answers
\* itself (or any command while no browser side is connected) is answered in
\* the step that receives it; a forwarded command becomes one pending request
\* and is answered in the step that settles it (reply, extension error,
\* timeout, replacement), if its client is still connected then.
C15_EveryCommandAnsweredOnce ==
    [][/\ (ev'.h = "CliOnMessage" /\ cliState[ev'.ws] = "open") =>
             IF ev'.cmd.method \in EmulatedMethods \/ extensionWs = 0
             THEN /\ Cardinality(Replies(out', ev'.cmd.id, ev'.cmd.sessionId)) = 1
                  /\ \A i \in Replies(out', ev'.cmd.id, ev'.cmd.sessionId) :
                        out'[i].ws = ev'.ws
             ELSE /\ Replies(out', ev'.cmd.id, ev'.cmd.sessionId) = {}
                  /\ extensionMessageId' = extensionMessageId + 1
                  /\ extensionMessageId' \in DOMAIN extensionPendingRequests'
                  /\ extensionMessageId' \in timers'
                  /\ LET cont == extensionPendingRequests'[extensionMessageId']
                     IN /\ cont.kind = "cmd" /\ cont.client = ClientIdOf(ev'.ws)
                        /\ cont.id = ev'.cmd.id /\ cont.sessionId = ev'.cmd.sessionId
       /\ \A req \in DOMAIN extensionPendingRequests \ DOMAIN extensionPendingRequests' :
             LET cont == extensionPendingRequests[req]
             IN cont.kind = "cmd" =>
                   \A ws \in Sockets :
                       (cliState'[ws] = "open" /\ ClientIdOf(ws) = cont.client) =>
                           /\ Cardinality(Replies(out', cont.id, cont.sessionId)) = 1
                           /\ \A i \in Replies(out', cont.id, cont.sessionId) :
                                 out'[i].ws = ws
       /\ \A req \in DOMAIN extensionPendingRequests : req \in timers]_vars

\* The keys of the Target Registry.
RegistryKeys(ct) == {ct[i].sessionId : i \in 1..Len(ct)}

\* C16: a session id is a key of the Target Registry exactly when its most
\* recent event was an attach: an attach event adds (or overwrites) the entry
\* of its sessionId, a detach event removes it, neither touches another
\* session's entry, and no other event but a teardown changes the keys.
C16_RegistryFollowsAttachDetach ==
    [][LET s == ev'.cmd.sessionId
           keys == RegistryKeys(connectedTargets)
           keys2 == RegistryKeys(connectedTargets')
       IN /\ ev'.h = "ExtOnAttached" =>
                /\ keys2 = keys \cup {s}
                /\ \E i \in 1..Len(connectedTargets') :
                      /\ connectedTargets'[i].sessionId = s
                      /\ connectedTargets'[i].targetId = ev'.cmd.targetId
                /\ Len(connectedTargets') = Cardinality(keys2)
          /\ ev'.h = "ExtOnDetached" =>
                /\ keys2 = keys \ {s}
                /\ Len(connectedTargets') = Cardinality(keys2)
          /\ ev'.h \notin {"ExtOnAttached", "ExtOnDetached", "ExtOnOpen", "ExtOnClose"} =>
                keys2 = keys
          /\ \A i \in 1..Len(connectedTargets) :
                (ev'.h \in {"ExtOnAttached", "ExtOnDetached"}
                   /\ connectedTargets[i].sessionId # s)
                  => \E j \in 1..Len(connectedTargets') :
                        connectedTargets'[j] = connectedTargets[i]]_vars

\* A detach has just removed one of two registered sessions.
C16_Witness ==
    /\ ev.h = "ExtOnDetached"
    /\ ev.was.targets = 2
    /\ Len(connectedTargets) = 1
    /\ connectedTargets[1].sessionId # ev.cmd.sessionId

\* C17: a browser-side disconnection never stops the relay.  At most one
\* browser-side connection is current and it is one whose close has not been
\* processed; a browser-side connection that arrives becomes the current one,
\* whatever was torn down before; the current connection stops being current
\* only by its own close or by a replacement; and while one is current every
\* forwarded client command is written to it, under the next request id.
C17_NewConnectionBecomesCurrent ==
    [][/\ extensionWs' \in ExtSockets \cup {0}
       /\ extensionWs' # 0 => extState'[extensionWs'] # "closed"
       /\ ev'.h = "ExtOnOpen" =>
             extensionWs' = ev'.ws /\ extState'[ev'.ws] = "open"
       /\ extensionWs' # extensionWs =>
             \/ ev'.h = "ExtOnOpen"
             \/ ev'.h = "ExtOnClose" /\ ev'.ws = extensionWs /\ extensionWs' = 0
       /\ (ev'.h = "CliOnMessage" /\ extensionWs # 0
             /\ ev'.cmd.method \notin EmulatedMethods) =>
             /\ Count(out', "ext") = 1
             /\ Pick(out', "ext")[1].ws = extensionWs
             /\ Pick(out', "ext")[1].k = ev'.cmd.method
             /\ Pick(out', "ext")[1].id = extensionMessageId + 1
             /\ Pick(out', "ext")[1].id \in DOMAIN extensionPendingRequests']_vars

\* A client command has just been forwarded to the second browser-side
\* connection after the first one was torn down and closed.
C17_Witness ==
    /\ ev.h = "CliOnMessage"
    /\ extensionWs = 2
    /\ extState[1] = "closed"
    /\ Count(out, "ext") = 1
    /\ Pick(out, "ext")[1].ws = 2

\* C18: two `run` invocations with the same page name never execute their
\* code bodies at the same time, and a run that has ended holds no lock and
\* has disconnected the client it connected.
C18_SamePageBodiesExclusive ==
    /\ \A r1 \in RunIds : \A r2 \in RunIds \ {r1} :
          (runs[r1].page = runs[r2].page /\ runs[r1].body = "running")
             => runs[r2].body # "running"
    /\ \A r \in RunIds :
          runs[r].pc = "exited" =>
             /\ \A page \in Names : locks[page] # r
             /\ runs[r].client # "connected"

\* C19: `daemon ensure` starts a daemon only if needed.  When the state file
\* of the mode named a live process, the health endpoint answered with the
\* same mode and (launch mode) no engine other than the running one was
\* requested, the call spawns and signals nothing, leaves the state files, the
\* pid files and the processes as they were and returns startedNow = false
\* with the pid of the state file.
C19_EnsureKeepsRunningDaemon ==
    [][(/\ done'.op = "EnsureHealth"
        /\ done'.health # NoHealth
        /\ done'.health.mode = calls[done'.caller].mode
        /\ \/ calls[done'.caller].mode = "extension"
           \/ calls[done'.caller].engine \in {"", done'.health.engine})
         => /\ done'.returned /\ ~done'.startedNow /\ ~done'.thrown
            /\ done'.pid = calls[done'.caller].existing.pid
            /\ done'.spawned = {} /\ done'.signalled = {} /\ done'.removed = {}
            /\ UNCHANGED <<stateFile, pidFile, procs>>
            /\ calls'[done'.caller].pc = "idle"]_vars

\* An ensure that asked for no engine has just found the playwright launch
\* daemon, which an earlier ensure started and which the state file names,
\* and returned it.
C19_Witness ==
    /\ done.op = "EnsureHealth"
    /\ done.returned /\ ~done.startedNow
    /\ done.health.mode = "launch" /\ done.health.engine = "playwright"
    /\ stateFile["launch"].pid = done.pid
    /\ pidFile["launch"] = done.pid
    /\ done.health.pid = done.pid
    /\ Cardinality({pid \in Pids : procs[pid].kind = "daemon"}) = 1

\* C20: `daemon clean --stale-only` signals no process and leaves the state
\* file and the pid file of a mode as they were when the process that the
\* mode's state file or pid file names is alive.
C20_StaleOnlyKeepsLiveDaemon ==
    [][(done'.op = "Clean" /\ done'.staleOnly) =>
          /\ done'.signalled = {}
          /\ \A mode \in Modes :
                (isProcessAlive(stateFile[mode].pid) \/ isProcessAlive(pidFile[mode]))
                   => /\ stateFile'[mode] = stateFile[mode]
                      /\ pidFile'[mode] = pidFile[mode]]_vars

\* A clean --stale-only has just removed the files of the extension mode,
\* whose daemon had ended, and kept those of the launch mode, whose daemon is
\* alive.
C20_Witness ==
    /\ done.op = "Clean" /\ done.staleOnly
    /\ done.removed = {"extension"}
    /\ stateFile["launch"] # NoState
    /\ pidFile["launch"] = stateFile["launch"].pid
    /\ isProcessAlive(pidFile["launch"])
    /\ stateFile["extension"] = NoState /\ pidFile["extension"] = 0

\* C21: over the life of one client connection the relay never sends that
\* client two Target.attachedToTarget events for the same target (targetId),
\* whether they come from the broadcast of an attach event, from the client's
\* Target.setAutoAttach or from its Target.attachToTarget.
C21_AttachedEventOncePerTarget ==
    \A ws \in Sockets : \A t \in TargetIds : hist.told[ws][t] <= 1

\* A registered client that was already sent the attach event of a target
\* has just asked Target.attachToTarget for it, got its session id and was not
\* sent the event again.
C21_Witness ==
    /\ ev.h = "CliOnMessage"
    /\ ev.cmd.method = "Target.attachToTarget"
    /\ InRegistry(ev.ws) /\ cliState[ev.ws] = "open"
    /\ hist.told[ev.ws][ev.cmd.targetId] = 1
    /\ Told(out, ev.ws, ev.cmd.targetId) = 0
    /\ \E i \in 1..Len(out) : out[i].t = "cli" /\ out[i].k = "result"
                                 /\ out[i].note = "sessionId"

\* C22: the emulated methods are answered without contacting the browser
\* side: routing one of them writes nothing to the browser-side channel,
\* creates no pending request, arms no timeout, does not advance the
\* request-id counter and leaves the Target Registry and the Named Page
\* Directory unchanged.
C22_EmulatedMethodsStayLocal ==
    [][(/\ ev'.h = "CliOnMessage"
        /\ ev'.cmd.method \in
              {"Browser.getVersion", "Target.setDiscoverTargets", "Target.setAutoAttach",
               "Target.getBrowserContexts", "Target.createBrowserContext",
               "Target.attachToBrowserTarget", "Target.attachToTarget",
               "Target.getTargetInfo", "Target.getTargets"})
         => /\ Count(out', "ext") = 0
            /\ Count(out', "extClose") = 0
            /\ UNCHANGED <<extensionPendingRequests, extensionMessageId, timers,
                           extInbox, connectedTargets, namedPages, extensionWs>>]_vars

\* Target.getBrowserContexts has just been answered to the client that sent
\* it, with the browser side connected, a target registered, a name bound and
\* a forwarded request pending.
C22_Witness ==
    /\ ev.h = "CliOnMessage"
    /\ ev.cmd.method = "Target.getBrowserContexts"
    /\ extensionWs # 0
    /\ Len(connectedTargets) > 0 /\ Len(namedPages) > 0
    /\ DOMAIN extensionPendingRequests # {}
    /\ Len(out) = 1 /\ out[1].t = "cli" /\ out[1].k = "result" /\ out[1].ws = ev.ws

\* The Target.targetCreated events for targetId t among msgs that go to ws.
Created(msgs, ws, t) ==
    {i \in 1..Len(msgs) : /\ msgs[i].t = "cli" /\ msgs[i].ws = ws
                          /\ msgs[i].k = "Target.targetCreated" /\ msgs[i].targetId = t}

\* C23: a Target.setAutoAttach without a sessionId or a
\* Target.setDiscoverTargets(discover = true) of a connected client, handled
\* while a browser-side connection is present, is followed, before its reply, by a notification pass over the Target
\* Registry that goes to the requesting client only: after it that client has
\* been sent the attach event (auto-attach) or a Target.targetCreated event
\* (discover) of every registered target, the reply is the last message of the
\* step, and no other client was sent anything.
C23_NotificationPassToRequester ==
    [][(/\ ev'.h = "CliOnMessage"
        /\ extensionWs # 0
        /\ cliState[ev'.ws] = "open"
        /\ \/ ev'.cmd.method = "Target.setAutoAttach" /\ ev'.cmd.sessionId = 0
           \/ ev'.cmd.method = "Target.setDiscoverTargets" /\ ev'.cmd.discover)
         => /\ Len(out') > 0
            /\ out'[Len(out')].t = "cli" /\ out'[Len(out')].k = "result"
            /\ out'[Len(out')].id = ev'.cmd.id
            /\ \A i \in 1..Len(out') : out'[i].t = "cli" /\ out'[i].ws = ev'.ws
            /\ \A i \in 1..Len(connectedTargets) :
                  IF ev'.cmd.method = "Target.setAutoAttach"
                  THEN hist'.told[ev'.ws][connectedTargets[i].targetId] >= 1
                  ELSE Created(out', ev'.ws, connectedTargets[i].targetId) # {}]_vars

\* C24: the relay does not prevent the duplicate creation: a POST /pages for
\* a name that resolves to no registered target, handled while a browser-side
\* connection is present, forwards one Target.createTarget and keeps a pending
\* creation for the name, also while earlier creations for the same name are
\* pending or in their wait.
C24_CreateNotSerialized ==
    [][(/\ ev'.h = "PostPages"
        /\ extensionWs # 0
        /\ ~HasSession(connectedTargets, NamedGet(namedPages, ev'.cmd.id)))
         => /\ Count(out', "ext") = 1
            /\ Pick(out', "ext")[1].k = "Target.createTarget"
            /\ Pick(out', "ext")[1].id = extensionMessageId + 1
            /\ Pick(out', "ext")[1].id \in DOMAIN extensionPendingRequests'
            /\ extensionPendingRequests'[extensionMessageId + 1].kind = "create"
            /\ extensionPendingRequests'[extensionMessageId + 1].name = ev'.cmd.id
            /\ \A i \in 1..Len(out') : out'[i].t # "http"]_vars

\* Two overlapping POST /pages for one unused name have each had their
\* Target.createTarget answered with a different new target, and neither has
\* bound the name yet.
C24_Witness ==
    /\ \E r1 \in sleeping : \E r2 \in sleeping :
          /\ r1.name = r2.name
          /\ r1.targetId # r2.targetId
          /\ NamedGet(namedPages, r1.name) = 0
          /\ {r1.targetId, r2.targetId} \subseteq tabs
    /\ extensionWs # 0

\* C25: a 200 answer of POST /pages reports the target its name is bound to
\* when the answer is produced: the name is bound to a registered session and
\* the answer's targetId is that session's targetId.
C25_ResponseReportsBinding ==
    [][\A i \in 1..Len(out') :
          (/\ out'[i].t = "http"
           /\ out'[i].k = "POST /pages"
           /\ out'[i].id = 200)
            => LET j == IndexOfSession(connectedTargets', NamedGet(namedPages', out'[i].name), 1)
               IN /\ j # 0
                  /\ connectedTargets'[j].targetId = out'[i].targetId]_vars

\* C26: no two names of namedPages are bound to the same session id, in every
\* reachable state; and so after a Target.detachedFromTarget event is handled
\* no name is bound to the detached session.
C26_NamesBoundInjectively ==
    /\ [](\A i \in 1..Len(namedPages) : \A j \in 1..Len(namedPages) :
             namedPages[i].sessionId = namedPages[j].sessionId => i = j)
    /\ [][ev'.h = "ExtOnDetached"
            => \A i \in 1..Len(namedPages') :
                  namedPages'[i].sessionId # ev'.cmd.sessionId]_vars

\* A detach event for a bound session was handled while another name was
\* bound too: the detached session's name is gone, the other is left.
C26_Witness ==
    /\ ev.h = "ExtOnDetached"
    /\ ev.was.names = 2
    /\ Len(namedPages) = 1
    /\ namedPages[1].sessionId # ev.cmd.sessionId

\* C27: when a Target.detachedFromTarget event has removed a target and the
\* next event attaches the same targetId under another session id, every
\* client in the Client Registry is sent Target.attachedToTarget for the new
\* session.
C27_ReattachAnnouncedToAll ==
    [][(/\ ev.h = "ExtOnDetached"
        /\ ev.was.targets > Len(connectedTargets)
        /\ ev'.h = "ExtOnAttached"
        /\ ev'.cmd.sessionId # ev.cmd.sessionId
        /\ ev'.cmd.targetId = TargetOf(ev.cmd.sessionId))
         => \A c \in DOMAIN patchrightClients :
               \E i \in 1..Len(out') :
                  /\ out'[i].t = "cli"
                  /\ out'[i].ws = patchrightClients[c].ws
                  /\ out'[i].k = "Target.attachedToTarget"
                  /\ out'[i].sessionId = ev'.cmd.sessionId]_vars

\* C28: the close event of a replaced browser-side socket, handled while
\* another browser-side connection is current, leaves the current connection,
\* connectedTargets, namedPages, the pending requests with their timers and
\* the Client Registry as they were, and sends nothing.
C28_StaleCloseChangesNothing ==
    [][(/\ ev'.h = "ExtOnClose"
        /\ extensionWs # 0
        /\ extensionWs # ev'.ws)
         => /\ extensionWs' = extensionWs
            /\ connectedTargets' = connectedTargets
            /\ namedPages' = namedPages
            /\ extensionPendingRequests' = extensionPendingRequests
            /\ timers' = timers
            /\ patchrightClients' = patchrightClients
            /\ cliState' = cliState
            /\ out' = <<>>]_vars

\* The close of a replaced socket has been handled while its successor was
\* current and had a registered target, a pending request and a client.
C28_Witness ==
    /\ ev.h = "ExtOnClose"
    /\ ev.was.current \notin {0, ev.ws}
    /\ extensionWs = ev.was.current
    /\ extState[ev.ws] = "closed"
    /\ connectedTargets # <<>>
    /\ DOMAIN extensionPendingRequests # {}
    /\ DOMAIN patchrightClients # {}

\* How often a step settled request id.
RECURSIVE Settles(_, _)
Settles(msgs, id) ==
    IF msgs = <<>> THEN 0
    ELSE (IF Head(msgs).t = "settle" /\ Head(msgs).id = id THEN 1 ELSE 0)
         + Settles(Tail(msgs), id)

\* C29: each pending request is settled exactly once and its record removed
\* at that moment.  A request has a live timer exactly while it is pending; a
\* step settles a request at most once, only if it was pending, and removes
\* its record and timer; a record disappears only by being settled; the
\* settling step is the reply with that id (resolve or reject by the reply),
\* the request's timeout, or the close or replacement of the browser-side
\* connection (reject); and an id that is no longer pending never is again.
C29_SettledExactlyOnce ==
    /\ [](timers = DOMAIN extensionPendingRequests)
    /\ [][\A id \in 1..(extensionMessageId + 1) :
             /\ Settles(out', id) <= 1
             /\ Settles(out', id) = 1 =>
                   /\ id \in DOMAIN extensionPendingRequests
                   /\ id \notin DOMAIN extensionPendingRequests'
                   /\ id \notin timers'
                   /\ \/ ev'.h = "ExtOnReply" /\ ev'.cmd.id = id
                      \/ /\ ev'.h = "Timeout" /\ ev'.cmd.id = id
                         /\ \A i \in 1..Len(out') : out'[i].t = "settle" => out'[i].k = "reject"
                      \/ /\ ev'.h = "ExtOnClose" \/ ev'.h = "ExtOnOpen"
                         /\ \A i \in 1..Len(out') : out'[i].t = "settle" => out'[i].k = "reject"
                         /\ DOMAIN extensionPendingRequests' = {}
             /\ (id \in DOMAIN extensionPendingRequests
                   /\ id \notin DOMAIN extensionPendingRequests') => Settles(out', id) = 1
             /\ (id <= extensionMessageId /\ id \notin DOMAIN extensionPendingRequests)
                   => id \notin DOMAIN extensionPendingRequests']_vars

\* A reply has just resolved one of two pending requests: its record and
\* timer are gone, the other request is still pending with its timer.
C29_Witness ==
    /\ ev.h = "ExtOnReply"
    /\ Count(out, "settle") = 1
    /\ Pick(out, "settle")[1].k = "resolve"
    /\ Pick(out, "settle")[1].id = ev.cmd.id
    /\ ev.cmd.id \notin DOMAIN extensionPendingRequests
    /\ ev.cmd.id \notin timers
    /\ DOMAIN extensionPendingRequests # {}
    /\ timers = DOMAIN extensionPendingRequests

\* C30: the request ids sent to the browser side are strictly increasing over
\* the life of the relay, across reconnections too.  extensionMessageId is
\* the greatest id sent so far and never decreases; every id a step sends is
\* greater than it and than the ids the step sent before; so every pending
\* request has an id that was sent, and the id of a send is not pending.
C30_RequestIdsIncrease ==
    /\ [](\A id \in DOMAIN extensionPendingRequests : id \in 1..extensionMessageId)
    /\ [][LET sent == Pick(out', "ext")
          IN /\ extensionMessageId' >= extensionMessageId
             /\ \A i \in 1..Len(sent) :
                   /\ sent[i].id > extensionMessageId
                   /\ sent[i].id <= extensionMessageId'
                   /\ sent[i].id \notin DOMAIN extensionPendingRequests
                   /\ \A j \in 1..Len(sent) : i < j => sent[i].id < sent[j].id
             /\ sent = <<>> => extensionMessageId' = extensionMessageId]_vars

\* A request has been sent on the second browser-side connection, after the
\* first was closed, under an id greater than the one used on the first.
C30_Witness ==
    /\ Count(out, "ext") = 1
    /\ Pick(out, "ext")[1].ws = 2
    /\ Pick(out, "ext")[1].id = extensionMessageId
    /\ extensionMessageId >= 2
    /\ extensionWs = 2
    /\ extState[1] = "closed"
    /\ extInbox[1] = {}

\* C31: the commands of one client are forwarded in the order they arrive.
\* The step that handles a forwarded command while a browser-side connection
\* is present writes that command to the connection itself, once, under a
\* request id greater than the id of every request still pending for the same
\* client and of every request sent before, and records the command as the
\* request's owner; so a command received earlier was written earlier and
\* under a smaller id, whatever the order of the replies.
C31_ForwardedInArrivalOrder ==
    [][(/\ ev'.h = "CliOnMessage"
        /\ extensionWs # 0
        /\ ev'.cmd.method \notin EmulatedMethods)
         => /\ Count(out', "ext") = 1
            /\ LET m == Pick(out', "ext")[1]
               IN /\ m.ws = extensionWs
                  /\ m.k = ev'.cmd.method
                  /\ m.id > extensionMessageId
                  /\ \A id \in DOMAIN extensionPendingRequests : id < m.id
                  /\ m.id \in DOMAIN extensionPendingRequests'
                  /\ extensionPendingRequests'[m.id].kind = "cmd"
                  /\ extensionPendingRequests'[m.id].client = ClientIdOf(ev'.ws)
                  /\ extensionPendingRequests'[m.id].id = ev'.cmd.id
                  /\ \A id \in DOMAIN extensionPendingRequests :
                        extensionPendingRequests'[id] = extensionPendingRequests[id]]_vars

\* Two commands of one client were forwarded and the second was answered
\* first: its result went to the client while the first is still pending.
C31_Witness ==
    /\ ev.h = "ExtOnReply"
    /\ \E i \in 1..Len(out) : \E id \in DOMAIN extensionPendingRequests :
          /\ out[i].t = "cli"
          /\ out[i].k = "result"
          /\ id < ev.cmd.id
          /\ extensionPendingRequests[id].kind = "cmd"
          /\ extensionPendingRequests[id].client \in DOMAIN patchrightClients
          /\ patchrightClients[extensionPendingRequests[id].client].ws = out[i].ws

\* C32: DELETE /pages/:name removes that name's entry and nothing else.
\* connectedTargets, every other binding, the pending requests with their
\* timers, the request-id counter, the clients and the browser-side connection
\* are unchanged, the only output is the HTTP answer (no command goes to the
\* browser side), and the answer says success exactly when the name was
\* bound; for a name that was not bound namedPages is unchanged.
C32_DeleteOnlyUnbinds ==
    [][ev'.h = "DeletePages"
         => /\ UNCHANGED <<connectedTargets, extensionPendingRequests, timers,
                           extensionMessageId, patchrightClients, cliState,
                           extensionWs, extState, extInbox, sleeping>>
            /\ NamedGet(namedPages', ev'.cmd.id) = 0
            /\ \A name \in Names \ {ev'.cmd.id} :
                  NamedGet(namedPages', name) = NamedGet(namedPages, name)
            /\ Len(namedPages') = Len(namedPages)
                                    - (IF IndexOfName(namedPages, ev'.cmd.id, 1) # 0 THEN 1 ELSE 0)
            /\ IndexOfName(namedPages, ev'.cmd.id, 1) = 0 => namedPages' = namedPages
            /\ Len(out') = 1
            /\ out'[1].t = "http"
            /\ out'[1].k = "DELETE /pages"
            /\ out'[1].note = (IF IndexOfName(namedPages, ev'.cmd.id, 1) # 0
                               THEN "success" ELSE "no success")]_vars

\* One of two bound names has just been deleted while both targets were
\* registered and a client was connected; the other name is still bound.
C32_Witness ==
    /\ ev.h = "DeletePages"
    /\ out[1].note = "success"
    /\ Len(namedPages) = 1
    /\ HasSession(connectedTargets, namedPages[1].sessionId)
    /\ Len(connectedTargets) = 2
    /\ DOMAIN patchrightClients # {}

\* C33: a forwarded browser-side event other than attach, detach and
\* target-info-changed is sent once to every connected client (every client
\* socket that was accepted and is neither closed nor told to close), with
\* its method and sessionId, and to nobody else; connectedTargets, namedPages
\* and the clients' knownTargets are unchanged.
C33_OtherEventsBroadcast ==
    [][ev'.h = "ExtOnEvent"
         => /\ \A ws \in Sockets :
                  cliState[ws] = "open" =>
                     \E i \in 1..Len(out') :
                        /\ out'[i].t = "cli"
                        /\ out'[i].ws = ws
                        /\ out'[i].k = "Page.loadEventFired"
                        /\ out'[i].sessionId = ev'.cmd.sessionId
                        /\ \A j \in 1..Len(out') : out'[j].ws = ws => j = i
            /\ \A i \in 1..Len(out') :
                  /\ out'[i].t = "cli"
                  /\ out'[i].k = "Page.loadEventFired"
                  /\ out'[i].sessionId = ev'.cmd.sessionId
            /\ UNCHANGED <<connectedTargets, namedPages, patchrightClients>>]_vars

ResultsTo(msgs, ws, id) ==
    {i \in 1..Len(msgs) : /\ msgs[i].t = "cli" /\ msgs[i].ws = ws
                          /\ msgs[i].k = "result" /\ msgs[i].id = id}

\* C35: Target.attachToTarget is answered from the Target Registry, with no
\* round trip: nothing is written to the browser side and no request becomes
\* pending.  With a targetId that a registered Target has, the result is the
\* sessionId of the first such Target, a key of the registry; with no
\* targetId, or one that no registered Target has, the result carries no
\* sessionId.
C35_AttachToTargetFromRegistry ==
    [][(/\ ev'.h = "CliOnMessage"
        /\ extensionWs # 0
        /\ ev'.cmd.method = "Target.attachToTarget")
         => LET t == ev'.cmd.targetId
                i == IndexOfTargetId(connectedTargets, t, 1)
                replies == ResultsTo(out', ev'.ws, ev'.cmd.id)
            IN /\ Count(out', "ext") = 0
               /\ UNCHANGED <<extensionPendingRequests, extensionMessageId, timers,
                              connectedTargets, namedPages>>
               /\ InRegistry(ev'.ws) => Cardinality(replies) = 1
               /\ \A r \in replies :
                     IF t # 0 /\ i # 0
                     THEN /\ Len(out'[r].data) = 1
                          /\ out'[r].data[1].sessionId = connectedTargets[i].sessionId
                          /\ out'[r].data[1].sessionId \in RegistryKeys(connectedTargets)
                          /\ connectedTargets[i].targetId = t
                     ELSE out'[r].data = <<>>]_vars

\* Target.attachToTarget has just been answered with the session of the
\* second of two registered targets.
C35_Witness ==
    /\ ev.h = "CliOnMessage"
    /\ ev.cmd.method = "Target.attachToTarget"
    /\ Len(connectedTargets) = 2
    /\ connectedTargets[2].targetId = ev.cmd.targetId
    /\ \E r \in ResultsTo(out, ev.ws, ev.cmd.id) :
          out[r].data = <<[sessionId |-> connectedTargets[2].sessionId]>>

\* C36: Target.getTargetInfo answers with the stored info of the Target that
\* has the given targetId; with no targetId it answers with the info of the
\* first Target of the registry, and with no target info when the registry is
\* empty.
C36_GetTargetInfoStoredOrFirst ==
    [][(/\ ev'.h = "CliOnMessage"
        /\ extensionWs # 0
        /\ ev'.cmd.method = "Target.getTargetInfo")
         => LET t == ev'.cmd.targetId
                i == IndexOfTargetId(connectedTargets, t, 1)
                replies == ResultsTo(out', ev'.ws, ev'.cmd.id)
            IN /\ InRegistry(ev'.ws) => Cardinality(replies) = 1
               /\ \A r \in replies :
                     /\ (t # 0 /\ i # 0) =>
                           out'[r].data = <<connectedTargets[i].targetInfo>>
                     /\ (t = 0 /\ Len(connectedTargets) > 0) =>
                           out'[r].data = <<connectedTargets[1].targetInfo>>
                     /\ Len(connectedTargets) = 0 => out'[r].data = <<>>]_vars

\* Target.getTargetInfo without a targetId has just been answered with the
\* info of the first of two registered targets, which differ.
C36_Witness ==
    /\ ev.h = "CliOnMessage"
    /\ ev.cmd.method = "Target.getTargetInfo"
    /\ ev.cmd.targetId = 0
    /\ Len(connectedTargets) = 2
    /\ connectedTargets[1].targetInfo # connectedTargets[2].targetInfo
    /\ \E r \in ResultsTo(out, ev.ws, ev.cmd.id) :
          out[r].data = <<connectedTargets[1].targetInfo>>

\* C37: when Target.getTargetInfo is called with a targetId, the targetInfo
\* it answers with, if any, has that targetId.
C37_GetTargetInfoOfRequestedTarget ==
    [][(/\ ev'.h = "CliOnMessage"
        /\ extensionWs # 0
        /\ ev'.cmd.method = "Target.getTargetInfo"
        /\ ev'.cmd.targetId # 0)
         => \A r \in ResultsTo(out', ev'.ws, ev'.cmd.id) :
               \A k \in 1..Len(out'[r].data) :
                  out'[r].data[k].targetId = ev'.cmd.targetId]_vars

\* C38: in launch mode a name of the page registry always maps to an open
\* page, and a binding is removed only together with its own page: whenever a
\* step removes the binding of a name, the page the name was bound to is
\* closed after the step.  In particular the close of a page that lost the
\* race of two overlapping POST /pages leaves the winner's binding.
C38_BindingEndsWithItsPage ==
    /\ [](\A name \in Names :
             registry[name] # 0 => pages[registry[name]].state = "open")
    /\ [][\A name \in Names :
             (registry[name] # 0 /\ registry'[name] = 0)
                => pages'[registry[name]].state = "closed"]_vars

\* C10: a request that gets no reply within its timeout is rejected with the
\* timeout error and its record removed; a reply with that id arriving later
\* is dropped: it settles nothing, changes no registry, sends nothing.
C10_TimeoutThenLateReplyDropped ==
    [][/\ ev'.h = "Timeout" =>
             /\ ev'.cmd.id \notin DOMAIN extensionPendingRequests'
             /\ ev'.cmd.id \notin timers'
             /\ ev'.cmd.id \in DOMAIN extensionPendingRequests =>
                   /\ out'[1].t = "settle" /\ out'[1].k = "reject"
                   /\ out'[1].id = ev'.cmd.id
                   /\ out'[1].note = "Extension request timeout"
                   /\ LET cont == extensionPendingRequests[ev'.cmd.id]
                      IN /\ (cont.kind = "cmd" /\ cont.client \in DOMAIN patchrightClients) =>
                               /\ Len(out') = 2
                               /\ out'[2].t = "cli" /\ out'[2].k = "error"
                               /\ out'[2].id = cont.id
                               /\ out'[2].ws = patchrightClients[cont.client].ws
                               /\ out'[2].note = "Extension request timeout"
                         /\ cont.kind # "cmd" =>
                               /\ Len(out') = 2
                               /\ out'[2].t = "http" /\ out'[2].id = 500
                               /\ out'[2].name = cont.name
       /\ (ev'.h = "ExtOnReply" /\ ev'.late) =>
             /\ out' = <<>>
             /\ UNCHANGED <<connectedTargets, namedPages, patchrightClients,
                            extensionPendingRequests, timers, sleeping,
                            extensionWs, extensionMessageId>>]_vars

C10_Witness ==
    /\ ev.h = "ExtOnReply" /\ ev.late /\ ev.cmd.method = "result"
    /\ ev.ws = extensionWs
    /\ DOMAIN patchrightClients # {}
    /\ out = <<>>

====
